---- MODULE Spec2Model ----
(***************************************************************************)
(* Model of the retrieval-and-answer pipeline of rag-chatbot:             *)
(*   RAGPipeline          (src/rag_pipeline.py, lexical retrieval)         *)
(*   RAGPipelinePostgres  (src/rag_pipeline_postgres.py, vector retrieval) *)
(* One query is followed from generate_response through every invocation  *)
(* of _call_gemini_with_retry and every backend attempt inside it.        *)
(*                                                                         *)
(* Scores are kept in hundredths (0.4 is 40).  A chunk's content is       *)
(* identified by its position in the corpus.  A reply is a sequence of    *)
(* words; an error message is the set of signal substrings it carries.    *)
(***************************************************************************)
EXTENDS Integers, Sequences, FiniteSets, TLC

VARIABLES
    mode,                    \* "lexical" (RAGPipeline) or "vector" (RAGPipelinePostgres)
    use_extended_knowledge,  \* self.use_extended_knowledge
    chunks,                  \* self.chunks / the rows of document_embeddings, scored against the query
    pc,                      \* generate_response: "idle", "calling", "returned", "done"
    site,                    \* which call of generate_response is running: "grounded", "fallback", "general"
    ctx,                     \* locals of generate_response kept across the generation call, with
                             \* the chunks of relevant_chunks (retrieved) and its head (top)
    prompts,                 \* prompts handed to _call_gemini_with_retry during this query
    call_result,             \* what the last _call_gemini_with_retry returned or raised
    response_text,           \* local response_text of generate_response
    result,                  \* the value generate_response returned
    retry,                   \* the locals of one _call_gemini_with_retry followed attempt by attempt
    reference,               \* what the same query did in the other pipeline (comparison runs)
    search,                  \* the last cosine_similarity_search: arguments and rows returned
    rows,                    \* table document_embeddings, as committed
    doc_meta,                \* table document_metadata, as committed
    conn,                    \* self.conn of the store: "open" or "closed"
    written,                 \* per chunk_id, the values of the last committed write of a row present
    last_op,                 \* the last store operation: its name and how it ended
    run,                     \* the last run of EmbeddingPipeline.process_documents
    score,                   \* one call of _simple_relevance_score: arguments and value
    chunker,                 \* one call of _chunk_text: arguments, locals and position
    sessions,                \* SessionManager.sessions: per session id its record, or that it
                             \* was never issued or was removed
    lock,                    \* SessionManager.lock: "free" or the thread that holds it
    now,                     \* datetime.now(), in ticks
    threads,                 \* per thread: the method it runs, its position and what it returned
    ingest,                  \* a re-ingestion in steps: its position and document, and the
                             \* rows the last similarity search of a query session returned
    load                     \* the last call of initialize_with_documents: its argument, the
                             \* chunks before it and how it ended

query_vars == <<use_extended_knowledge, chunks, pc, site, ctx, prompts, call_result,
                response_text, result>>

store_vars == <<rows, doc_meta, conn, written, last_op>>

session_vars == <<sessions, lock, now, threads>>

offline_vars == <<run, score, chunker, session_vars, ingest, load>>

vars == <<mode, use_extended_knowledge, chunks, pc, site, ctx, prompts, call_result,
          response_text, result, retry, reference, search, store_vars, offline_vars>>

----------------------------------------------------------------------------
(* Bounds of the model *)

MaxChunks == 4
MaxRetries == 3

(* Program constants *)

RELEVANCE_THRESHOLD_LEXICAL == 40
TOP_SCORE_THRESHOLD_LEXICAL == 40
RELEVANCE_THRESHOLD_VECTOR == 50
URL_DETECTION_THRESHOLD == 30
SEARCH_THRESHOLD == 30
TOP_K == 5
CONTEXT_CHUNKS == 3
DEFAULT_MAX_RETRIES == 3
INITIAL_RETRY_DELAY == 1
MAX_URLS_PER_QUERY == 2
DRIVE_URLS_SHOWN == 3

----------------------------------------------------------------------------
(* Inputs *)

NoUrl == "none"
Urls == {"u1", "u2"}

\* The chunks a corpus is drawn from: document, score against the query, URL in the text.
ChunkKinds ==
    { [document_name |-> "d1", score |-> 40, url |-> "u1"],
      [document_name |-> "d1", score |-> 50, url |-> NoUrl],
      [document_name |-> "d2", score |-> 80, url |-> NoUrl] }

Corpora == UNION { [1..n -> ChunkKinds] : n \in 0..MaxChunks }

\* external_web_content: None, an empty list, or a list of fetched items (by URL).
WebInputs ==
    { [is_none |-> TRUE,  items |-> <<>>],
      [is_none |-> FALSE, items |-> <<>>],
      [is_none |-> FALSE, items |-> <<"u2", "u1">>] }

\* Texts the backend may answer with.
ReplyTexts ==
    { <<"Paris">>,
      <<"Sorry", "NOT", "Enough", "information">>,
      <<>>,
      <<" ">> }

\* Error messages the backend may raise, as the signals their text contains.
ErrorSignals == { {}, {"503"}, {"429"}, {"429", "503"} }

BackendOutcomes ==
    { [type |-> "reply", text |-> t, signals |-> {}] : t \in ReplyTexts } \cup
    { [type |-> "error", text |-> <<>>, signals |-> s] : s \in ErrorSignals }

----------------------------------------------------------------------------
(* Helpers on sequences *)

Take(s, n) == SubSeq(s, 1, IF Len(s) < n THEN Len(s) ELSE n)

Range(s) == { s[i] : i \in 1..Len(s) }

\* The chunk at position i, as the retrievers hand it on.
chunk_at(i) ==
    [content |-> i, document_name |-> chunks[i].document_name,
     score |-> chunks[i].score, url |-> chunks[i].url]

RECURSIVE scored_chunks(_)
scored_chunks(n) == IF n = 0 THEN <<>> ELSE Append(scored_chunks(n - 1), chunk_at(n))

----------------------------------------------------------------------------
(* Retrieval: lexical *)

\* Variant: a sort that puts x before the elements of its score.
insert_before_equal(x, s) ==
    LET k == Cardinality({ j \in 1..Len(s) : s[j].score > x.score })
    IN  SubSeq(s, 1, k) \o <<x>> \o SubSeq(s, k + 1, Len(s))

\* list.sort(key=score, reverse=True) is stable: x goes after every element scoring >= x.
insert_by_score(x, s) ==
    LET k == Cardinality({ j \in 1..Len(s) : s[j].score >= x.score })
    IN  SubSeq(s, 1, k) \o <<x>> \o SubSeq(s, k + 1, Len(s))

RECURSIVE sort_by_score_desc(_)
sort_by_score_desc(s) ==
    IF s = <<>> THEN <<>>
    ELSE insert_by_score(s[Len(s)], sort_by_score_desc(SubSeq(s, 1, Len(s) - 1)))

\* Variant: no check for an empty corpus.
RAGPipeline_retrieve_unchecked(top_k) ==
    [raised |-> FALSE,
     chunks |-> Take(sort_by_score_desc(
                         SelectSeq(scored_chunks(Len(chunks)), LAMBDA c : c.score > 0)),
                     top_k)]

\* RAGPipeline._retrieve_relevant_chunks: raises on an empty corpus, else the
\* chunks with score > 0, sorted by descending score, first top_k.
RAGPipeline_retrieve_relevant_chunks(top_k) ==
    IF chunks = <<>>
    THEN [raised |-> TRUE, chunks |-> <<>>]
    ELSE [raised |-> FALSE,
          chunks |-> Take(sort_by_score_desc(
                              SelectSeq(scored_chunks(Len(chunks)), LAMBDA c : c.score > 0)),
                          top_k)]

----------------------------------------------------------------------------
(* Retrieval: vector *)

\* ORDER BY embedding <=> query: every arrangement by non-increasing score
\* (SQL leaves the order of equal distances open).
RECURSIVE orders_by_distance(_)
orders_by_distance(S) ==
    IF S = {} THEN { <<>> }
    ELSE LET nearest == { c \in S : \A d \in S : d.score <= c.score }
         IN  UNION { { <<c>> \o t : t \in orders_by_distance(S \ {c}) } : c \in nearest }

\* Variant: the WHERE clause written with >= instead of >.
select_by_similarity_inclusive(top_k, threshold) ==
    { Take(o, top_k) :
        o \in orders_by_distance({ c \in Range(scored_chunks(Len(chunks))) : c.score >= threshold }) }

\* The SELECT of cosine_similarity_search when it executes: the rows with
\* score > threshold, by distance, first top_k -- every list it may return.
select_by_similarity(top_k, threshold) ==
    { Take(o, top_k) :
        o \in orders_by_distance({ c \in Range(scored_chunks(Len(chunks))) : c.score > threshold }) }

\* PostgresEmbeddingStore.cosine_similarity_search: the possible result lists;
\* a query that fails gives the empty list.
cosine_similarity_search(top_k, threshold) ==
    select_by_similarity(top_k, threshold) \cup { <<>> }

\* RAGPipelinePostgres._retrieve_relevant_chunks: the search results, reformatted.
\* When the query embedding, the connection or the search fails (failed), the
\* exception is swallowed, by the store or by the except clause here, into the
\* empty list.
RAGPipelinePostgres_retrieve_relevant_chunks(top_k, failed) ==
    IF failed THEN { <<>> }
    ELSE select_by_similarity(top_k, SEARCH_THRESHOLD)

----------------------------------------------------------------------------
(* Web content found through retrieved documents *)

RECURSIVE unique_in_order(_)
unique_in_order(s) ==
    IF s = <<>> THEN <<>>
    ELSE LET init == unique_in_order(SubSeq(s, 1, Len(s) - 1))
         IN  IF s[Len(s)] \in Range(init) THEN init ELSE Append(init, s[Len(s)])

\* WebContentService.detect_urls over the joined chunk texts.
detect_urls(cs) ==
    LET found == SelectSeq([i \in 1..Len(cs) |-> cs[i].url], LAMBDA u : u # NoUrl)
    IN  Take(unique_in_order(found), MAX_URLS_PER_QUERY)

\* WebContentService.fetch_all_urls: the items of the URLs that could be fetched.
fetch_all_urls(urls, fetchable) == SelectSeq(urls, LAMBDA u : u \in fetchable)

----------------------------------------------------------------------------
(* Context assembly *)

\* Variant: the comparison written >= instead of >.
filter_by_relevance_inclusive(cs, threshold) == SelectSeq(cs, LAMBDA c : c.score >= threshold)

filter_by_relevance(cs, threshold) == SelectSeq(cs, LAMBDA c : c.score > threshold)

\* Variant: the [:3] slice left out.
context_chunks_all(filtered) == filtered

context_chunks(filtered) == Take(filtered, CONTEXT_CHUNKS)

contents_of(cs) == [i \in 1..Len(cs) |-> cs[i].content]

\* Variant: the source kept in a single name that each chunk overwrites.
document_names_last(cs) == IF cs = <<>> THEN {} ELSE { cs[Len(cs)].document_name }

document_names(cs) == { cs[i].document_name : i \in 1..Len(cs) }

general_knowledge_prompt ==
    [kind |-> "general", instruction |-> "general", chunks |-> <<>>,
     web_drive |-> <<>>, web_user |-> <<>>]

EmptyCtx ==
    [retrieval_failed |-> FALSE,
     retrieved |-> {}, top |-> <<>>, has_drive_info |-> FALSE, has_web_info |-> FALSE, has_drive_web_info |-> FALSE,
     drive_sources |-> {}, web_sources |-> <<>>, web_sources_drive |-> <<>>]

NoResult ==
    [kind |-> "none", text |-> <<>>, note |-> FALSE, drive |-> {},
     web_drive |-> <<>>, web_user |-> <<>>, error |-> "none"]

----------------------------------------------------------------------------
(* Replies *)

\* str.lower(), word by word.
lower(w) ==
    CASE w = "NOT" -> "not"
      [] w = "Enough" -> "enough"
      [] w = "Sorry" -> "sorry"
      [] w = "Paris" -> "paris"
      [] OTHER -> w

lower_text(t) == [i \in 1..Len(t) |-> lower(t[i])]

is_space(w) == w = " "

\* str.strip(): leading and trailing whitespace removed.
RECURSIVE strip(_)
strip(t) ==
    IF t = <<>> THEN <<>>
    ELSE IF is_space(t[1]) THEN strip(Tail(t))
    ELSE IF is_space(t[Len(t)]) THEN strip(SubSeq(t, 1, Len(t) - 1))
    ELSE t

no_info_phrases ==
    { <<"no", "relevant", "information", "found">>,
      <<"no", "information", "found">>,
      <<"not", "enough", "information">> }

\* phrase in text
contains_phrase(t, phrase) ==
    \E i \in 1..Len(t) :
        /\ i + Len(phrase) - 1 <= Len(t)
        /\ SubSeq(t, i, i + Len(phrase) - 1) = phrase

\* any(phrase in response_text.lower() for phrase in no_info_phrases)
has_no_info_phrase(t) == \E phrase \in no_info_phrases : contains_phrase(lower_text(t), phrase)

----------------------------------------------------------------------------
(* _call_gemini_with_retry *)

NoCall == [status |-> "none", is_none |-> TRUE, text |-> <<>>, error |-> "none", signals |-> {}]

\* Variant: the test written  if "503" or "UNAVAILABLE" in error_str,  which is always true.
is_unavailable_always(signals) == TRUE

\* "503" in error_str or "UNAVAILABLE" in error_str or "overloaded" in error_str.lower()
is_unavailable(signals) == "503" \in signals

\* "429" in error_str or "RESOURCE_EXHAUSTED" in error_str or "Quota exceeded" in error_str
is_quota_exhausted(signals) == "429" \in signals

\* Variant: the bound written attempt < max_retries, so the last attempt sleeps
\* and the loop runs out instead of raising.
should_retry_off_by_one(signals, attempt, max_retries) ==
    is_unavailable(signals) /\ attempt < max_retries

\* the retry test of the except block, at loop index attempt
should_retry(signals, attempt, max_retries) ==
    is_unavailable(signals) /\ attempt < max_retries - 1

\* if response and response.text: return response.text.strip(); return None
returned_text(t) ==
    IF t # <<>>
    THEN [status |-> "returned", is_none |-> FALSE, text |-> strip(t), error |-> "none", signals |-> {}]
    ELSE [status |-> "returned", is_none |-> TRUE, text |-> <<>>, error |-> "none", signals |-> {}]

\* raise: the backend's own exception leaves the function
raised_backend(signals) ==
    [status |-> "raised", is_none |-> TRUE, text |-> <<>>, error |-> "backend", signals |-> signals]

\* raise ValueError("Gemini API quota exceeded. ...")
raised_quota_exceeded ==
    [status |-> "raised", is_none |-> TRUE, text |-> <<>>, error |-> "quota_exceeded", signals |-> {}]

\* The locals on entry: retry_delay = 1, response = None, the loop at attempt 0.
retry_start(max_retries) ==
    [max_retries |-> max_retries, attempt |-> 0, retry_delay |-> INITIAL_RETRY_DELAY,
     sleeps |-> <<>>, outcomes |-> <<>>, status |-> "running", result |-> NoCall]

retry_idle ==
    [max_retries |-> 0, attempt |-> 0, retry_delay |-> INITIAL_RETRY_DELAY,
     sleeps |-> <<>>, outcomes |-> <<>>, status |-> "idle", result |-> NoCall]

finish(st, r) == [st EXCEPT !.status = "finished", !.result = r]

\* time.sleep(retry_delay); retry_delay *= 2; continue -- and the return after
\* the loop when range(max_retries) is used up
sleep_and_continue(st) ==
    LET next == [st EXCEPT !.sleeps = Append(@, st.retry_delay),
                           !.retry_delay = @ * 2,
                           !.attempt = @ + 1]
    IN  IF next.attempt < st.max_retries THEN next ELSE finish(next, returned_text(<<>>))

\* RAGPipeline._call_gemini_with_retry: one iteration of the for loop, in which
\* the backend answers with o.
RAGPipeline_attempt(st, o) ==
    LET called == [st EXCEPT !.outcomes = Append(@, o)]
    IN  IF o.type = "reply" THEN finish(called, returned_text(o.text))
        ELSE IF should_retry(o.signals, st.attempt, st.max_retries) THEN sleep_and_continue(called)
        ELSE finish(called, raised_backend(o.signals))

\* RAGPipelinePostgres._call_gemini_with_retry: the same loop, with the quota
\* test ahead of the unavailability test.
RAGPipelinePostgres_attempt(st, o) ==
    LET called == [st EXCEPT !.outcomes = Append(@, o)]
    IN  IF o.type = "reply" THEN finish(called, returned_text(o.text))
        ELSE IF is_quota_exhausted(o.signals) THEN finish(called, raised_quota_exceeded)
        ELSE IF should_retry(o.signals, st.attempt, st.max_retries) THEN sleep_and_continue(called)
        ELSE finish(called, raised_backend(o.signals))

attempt_of(m, st, o) ==
    IF m = "lexical" THEN RAGPipeline_attempt(st, o) ELSE RAGPipelinePostgres_attempt(st, o)

\* The whole call against a backend that answers its successive calls with script.
RECURSIVE run_call(_, _, _)
run_call(m, st, script) ==
    IF st.status # "running" \/ script = <<>> THEN st
    ELSE run_call(m, attempt_of(m, st, script[1]), Tail(script))

Scripts(n) == [1..n -> BackendOutcomes]

\* Everything _call_gemini_with_retry(prompt) can return or raise.
RAGPipeline_call_results ==
    { run_call("lexical", retry_start(DEFAULT_MAX_RETRIES), s).result : s \in Scripts(DEFAULT_MAX_RETRIES) }

RAGPipelinePostgres_call_results ==
    { run_call("vector", retry_start(DEFAULT_MAX_RETRIES), s).result : s \in Scripts(DEFAULT_MAX_RETRIES) }

\* Entering _call_gemini_with_retry(prompt) from generate_response, after the
\* calls of this query listed in before.
enter_call(s, prompt, before) ==
    /\ pc' = "calling"
    /\ site' = s
    /\ prompts' = Append(before, prompt)
    /\ call_result' = NoCall

\* RAGPipeline: the generation call comes back with r.
RAGPipeline_call_gemini_with_retry(r) ==
    /\ mode = "lexical"
    /\ pc = "calling"
    /\ r \in RAGPipeline_call_results
    /\ call_result' = r
    /\ pc' = "returned"
    /\ UNCHANGED <<mode, use_extended_knowledge, chunks, site, ctx, prompts,
                   response_text, result, retry,
                   reference, search, store_vars,
                   offline_vars>>

\* RAGPipelinePostgres: the generation call comes back with r.
RAGPipelinePostgres_call_gemini_with_retry(r) ==
    /\ mode = "vector"
    /\ pc = "calling"
    /\ r \in RAGPipelinePostgres_call_results
    /\ call_result' = r
    /\ pc' = "returned"
    /\ UNCHANGED <<mode, use_extended_knowledge, chunks, site, ctx, prompts,
                   response_text, result, retry,
                   reference, search, store_vars,
                   offline_vars>>

\* The retry loop on its own: one backend attempt of the call in progress.
call_gemini_attempt(o) ==
    /\ retry.status = "running"
    /\ retry' = attempt_of(mode, retry, o)
    /\ UNCHANGED <<mode, query_vars, reference, search, store_vars,
                   offline_vars>>

----------------------------------------------------------------------------
(* generate_response: results *)

\* Variant: the except clause logs and re-raises instead of returning.
error_result_reraised(e) ==
    [kind |-> "raised", text |-> <<>>, note |-> FALSE, drive |-> {},
     web_drive |-> <<>>, web_user |-> <<>>, error |-> e]

\* f"Error generating response: {str(e)}"
error_result(e) ==
    [kind |-> "error", text |-> <<>>, note |-> FALSE, drive |-> {},
     web_drive |-> <<>>, web_user |-> <<>>, error |-> e]

\* "Unable to generate response at this time. Please try again."
unable_result ==
    [kind |-> "unable", text |-> <<>>, note |-> FALSE, drive |-> {},
     web_drive |-> <<>>, web_user |-> <<>>, error |-> "none"]

\* "No relevant information found in your ..."
not_found_result ==
    [kind |-> "not_found", text |-> <<>>, note |-> FALSE, drive |-> {},
     web_drive |-> <<>>, web_user |-> <<>>, error |-> "none"]

\* Variant: the note is appended and the code falls through to the attribution.
general_knowledge_result_attributed(t) ==
    [kind |-> "reply", text |-> t, note |-> TRUE, drive |-> ctx.drive_sources,
     web_drive |-> ctx.web_sources_drive, web_user |-> ctx.web_sources, error |-> "none"]

\* the reply followed by the general-knowledge note
general_knowledge_result(t) ==
    [kind |-> "reply", text |-> t, note |-> TRUE, drive |-> {},
     web_drive |-> <<>>, web_user |-> <<>>, error |-> "none"]

\* RAGPipeline: the reply followed by the attribution parts
RAGPipeline_attributed_result(t, c) ==
    [kind |-> "reply", text |-> t, note |-> FALSE,
     drive |-> IF c.has_drive_info THEN c.drive_sources ELSE {},
     web_drive |-> <<>>,
     web_user |-> IF c.has_web_info THEN c.web_sources ELSE <<>>,
     error |-> "none"]

\* RAGPipelinePostgres: the reply followed by the source lines
RAGPipelinePostgres_attributed_result(t, c) ==
    [kind |-> "reply", text |-> t, note |-> FALSE,
     drive |-> c.drive_sources,
     web_drive |-> Take(c.web_sources_drive, DRIVE_URLS_SHOWN),
     web_user |-> c.web_sources,
     error |-> "none"]

return_value(r) ==
    /\ pc' = "done"
    /\ result' = r

\* generate_response returns before any generation call
return_without_call(r) ==
    /\ return_value(r)
    /\ site' = "none"
    /\ prompts' = <<>>
    /\ call_result' = NoCall

\* if not response_text
is_empty_reply(r) == r.is_none \/ r.text = <<>>

\* Variant: the flag read inverted.
extended_knowledge_inverted == ~use_extended_knowledge

\* if self.use_extended_knowledge
extended_knowledge_enabled == use_extended_knowledge

----------------------------------------------------------------------------
(* RAGPipeline.generate_response *)

\* len(filtered_chunks) > 0 and filtered_chunks[0]['score'] > 0.4
RAGPipeline_has_drive_info(filtered) ==
    Len(filtered) > 0 /\ filtered[1].score > TOP_SCORE_THRESHOLD_LEXICAL

\* external_web_content is not None and len(external_web_content) > 0
has_web_info_of(web) == ~web.is_none /\ Len(web.items) > 0

RAGPipeline_instruction(has_drive_info, has_web_info) ==
    IF has_drive_info /\ has_web_info THEN "drive_and_web"
    ELSE IF has_drive_info THEN "drive" ELSE "web"

\* From the entry of generate_response to its first generation call or early return.
RAGPipeline_generate_response(web) ==
    /\ mode = "lexical"
    /\ pc = "idle"
    /\ response_text' = <<>>
    /\ LET r == RAGPipeline_retrieve_relevant_chunks(TOP_K)
           filtered == filter_by_relevance(r.chunks, RELEVANCE_THRESHOLD_LEXICAL)
           has_drive_info == RAGPipeline_has_drive_info(filtered)
           has_web_info == has_web_info_of(web)
           used == IF has_drive_info THEN context_chunks(filtered) ELSE <<>>
           web_sources == IF has_web_info THEN web.items ELSE <<>>
       IN  IF r.raised
           THEN /\ return_without_call(error_result("no_documents"))
                /\ ctx' = EmptyCtx
           ELSE /\ ctx' = [retrieval_failed |-> FALSE,
                           retrieved |-> Range(r.chunks),
                           top |-> Take(r.chunks, 1),
                           has_drive_info |-> has_drive_info,
                           has_web_info |-> has_web_info,
                           has_drive_web_info |-> FALSE,
                           drive_sources |-> document_names(used),
                           web_sources |-> web_sources,
                           web_sources_drive |-> <<>>]
                /\ IF has_drive_info \/ has_web_info
                   THEN /\ enter_call("grounded",
                                      [kind |-> "grounded",
                                       instruction |-> RAGPipeline_instruction(has_drive_info, has_web_info),
                                       chunks |-> contents_of(used),
                                       web_drive |-> <<>>,
                                       web_user |-> web_sources],
                                      <<>>)
                        /\ result' = NoResult
                   ELSE IF extended_knowledge_enabled
                   THEN /\ enter_call("general", general_knowledge_prompt, <<>>)
                        /\ result' = NoResult
                   ELSE return_without_call(not_found_result)
    /\ UNCHANGED <<mode, use_extended_knowledge, chunks, retry,
                   reference, search, store_vars,
                   offline_vars>>

\* After the grounded call returned: lines 251-292.
RAGPipeline_after_grounded ==
    /\ mode = "lexical"
    /\ pc = "returned"
    /\ site = "grounded"
    /\ call_result.status = "returned"
    /\ response_text' = call_result.text
    /\ IF is_empty_reply(call_result)
       THEN /\ return_value(unable_result)
            /\ UNCHANGED <<site, prompts, call_result>>
       ELSE IF has_no_info_phrase(call_result.text) /\ extended_knowledge_enabled
       THEN /\ enter_call("fallback", general_knowledge_prompt, prompts)
            /\ UNCHANGED result
       ELSE /\ return_value(RAGPipeline_attributed_result(call_result.text, ctx))
            /\ UNCHANGED <<site, prompts, call_result>>
    /\ UNCHANGED <<mode, use_extended_knowledge, chunks, ctx, retry,
                   reference, search, store_vars,
                   offline_vars>>

\* Variant: an empty general-knowledge reply makes the fallback call again.
RAGPipeline_after_fallback_again ==
    /\ mode = "lexical"
    /\ pc = "returned"
    /\ site = "fallback"
    /\ call_result.status = "returned"
    /\ IF ~is_empty_reply(call_result)
       THEN /\ return_value(general_knowledge_result(call_result.text))
            /\ UNCHANGED <<site, prompts, call_result>>
       ELSE /\ enter_call("fallback", general_knowledge_prompt, prompts)
            /\ UNCHANGED result
    /\ UNCHANGED <<mode, use_extended_knowledge, chunks, ctx, response_text, retry,
                   reference, search, store_vars,
                   offline_vars>>

\* After the general-knowledge call of the fallback returned: lines 268-292.
RAGPipeline_after_fallback ==
    /\ mode = "lexical"
    /\ pc = "returned"
    /\ site = "fallback"
    /\ call_result.status = "returned"
    /\ IF ~is_empty_reply(call_result)
       THEN return_value(general_knowledge_result(call_result.text))
       ELSE return_value(RAGPipeline_attributed_result(response_text, ctx))
    /\ UNCHANGED <<mode, use_extended_knowledge, chunks, site, ctx, prompts,
                   call_result, response_text, retry,
                   reference, search, store_vars,
                   offline_vars>>

\* After the call of the no-source branch returned: lines 308-316.
RAGPipeline_after_general ==
    /\ mode = "lexical"
    /\ pc = "returned"
    /\ site = "general"
    /\ call_result.status = "returned"
    /\ response_text' = call_result.text
    /\ IF is_empty_reply(call_result)
       THEN return_value(unable_result)
       ELSE return_value(general_knowledge_result(call_result.text))
    /\ UNCHANGED <<mode, use_extended_knowledge, chunks, site, ctx, prompts,
                   call_result, retry,
                   reference, search, store_vars,
                   offline_vars>>

\* except Exception as e: return f"Error generating response: {str(e)}"
RAGPipeline_except ==
    /\ mode = "lexical"
    /\ pc = "returned"
    /\ call_result.status = "raised"
    /\ return_value(error_result(call_result.error))
    /\ UNCHANGED <<mode, use_extended_knowledge, chunks, site, ctx, prompts,
                   call_result, response_text, retry,
                   reference, search, store_vars,
                   offline_vars>>

----------------------------------------------------------------------------
(* RAGPipelinePostgres.generate_response *)

\* sum([has_drive_info, has_web_info, has_drive_web_info]) > 1, etc.
RAGPipelinePostgres_instruction(has_drive_info, has_web_info, has_drive_web_info) ==
    LET source_count == (IF has_drive_info THEN 1 ELSE 0) + (IF has_web_info THEN 1 ELSE 0)
                        + (IF has_drive_web_info THEN 1 ELSE 0)
    IN  IF source_count > 1 THEN "multiple"
        ELSE IF has_drive_info THEN "drive" ELSE "web"

\* From the entry of generate_response to its first generation call or early
\* return.  relevant_chunks is one of the lists _retrieve_relevant_chunks can
\* return, failed tells whether it came from a swallowed failure; fetchable is
\* the set of URLs whose fetch succeeds.
RAGPipelinePostgres_generate_response(web, relevant_chunks, failed, fetchable) ==
    /\ mode = "vector"
    /\ pc = "idle"
    /\ response_text' = <<>>
    /\ LET url_candidate_chunks == filter_by_relevance(relevant_chunks, URL_DETECTION_THRESHOLD)
           drive_web_content == fetch_all_urls(detect_urls(url_candidate_chunks), fetchable)
           filtered == filter_by_relevance(relevant_chunks, RELEVANCE_THRESHOLD_VECTOR)
           has_drive_info == Len(filtered) > 0
           has_web_info == has_web_info_of(web)
           has_drive_web_info == Len(drive_web_content) > 0
           used == IF has_drive_info THEN context_chunks(filtered) ELSE <<>>
           web_sources_user == IF has_web_info THEN web.items ELSE <<>>
       IN  /\ ctx' = [retrieval_failed |-> failed,
                      retrieved |-> Range(relevant_chunks),
                      top |-> Take(relevant_chunks, 1),
                      has_drive_info |-> has_drive_info,
                      has_web_info |-> has_web_info,
                      has_drive_web_info |-> has_drive_web_info,
                      drive_sources |-> document_names(used),
                      web_sources |-> web_sources_user,
                      web_sources_drive |-> drive_web_content]
           /\ IF has_drive_info \/ has_web_info \/ has_drive_web_info
              THEN /\ enter_call("grounded",
                                 [kind |-> "grounded",
                                  instruction |-> RAGPipelinePostgres_instruction(
                                                      has_drive_info, has_web_info, has_drive_web_info),
                                  chunks |-> contents_of(used),
                                  web_drive |-> drive_web_content,
                                  web_user |-> web_sources_user],
                                 <<>>)
                   /\ result' = NoResult
              ELSE IF extended_knowledge_enabled
              THEN /\ enter_call("general", general_knowledge_prompt, <<>>)
                   /\ result' = NoResult
              ELSE return_without_call(not_found_result)
    /\ UNCHANGED <<mode, use_extended_knowledge, chunks, retry,
                   reference, search, store_vars,
                   offline_vars>>

\* After the grounded call returned: lines 299-314.
RAGPipelinePostgres_after_grounded ==
    /\ mode = "vector"
    /\ pc = "returned"
    /\ site = "grounded"
    /\ call_result.status = "returned"
    /\ response_text' = call_result.text
    /\ IF is_empty_reply(call_result)
       THEN return_value(unable_result)
       ELSE return_value(RAGPipelinePostgres_attributed_result(call_result.text, ctx))
    /\ UNCHANGED <<mode, use_extended_knowledge, chunks, site, ctx, prompts,
                   call_result, retry,
                   reference, search, store_vars,
                   offline_vars>>

\* After the call of the no-source branch returned: lines 327-332.
RAGPipelinePostgres_after_general ==
    /\ mode = "vector"
    /\ pc = "returned"
    /\ site = "general"
    /\ call_result.status = "returned"
    /\ response_text' = call_result.text
    /\ IF ~is_empty_reply(call_result)
       THEN return_value(general_knowledge_result(call_result.text))
       ELSE return_value(unable_result)
    /\ UNCHANGED <<mode, use_extended_knowledge, chunks, site, ctx, prompts,
                   call_result, retry,
                   reference, search, store_vars,
                   offline_vars>>

\* except Exception as e: return f"Error generating response: {error_msg}"
RAGPipelinePostgres_except ==
    /\ mode = "vector"
    /\ pc = "returned"
    /\ call_result.status = "raised"
    /\ return_value(error_result(call_result.error))
    /\ UNCHANGED <<mode, use_extended_knowledge, chunks, site, ctx, prompts,
                   call_result, response_text, retry,
                   reference, search, store_vars,
                   offline_vars>>

----------------------------------------------------------------------------
(* The same query put to both implementations *)

\* What the two _call_gemini_with_retry make of one and the same backend behaviour.
paired_call_results ==
    { << run_call("lexical", retry_start(DEFAULT_MAX_RETRIES), s).result,
         run_call("vector", retry_start(DEFAULT_MAX_RETRIES), s).result >> :
        s \in Scripts(DEFAULT_MAX_RETRIES) }

\* The class of the string generate_response returned.
outcome_class(r) ==
    IF r.kind = "reply" THEN (IF r.note THEN "general_knowledge" ELSE "grounded") ELSE r.kind

\* The path a finished generate_response took: its generation calls, the kind
\* of prompt of each, and the class of the value returned.
decision_path ==
    [calls |-> Len(prompts),
     kinds |-> [i \in 1..Len(prompts) |-> prompts[i].kind],
     outcome |-> outcome_class(result)]

\* What the generation calls of the finished lexical query came back with, in order.
call_results_in_order ==
    IF prompts = <<>> THEN <<>>
    ELSE IF site = "fallback"
    THEN << [status |-> "returned", is_none |-> FALSE, text |-> response_text,
             error |-> "none", signals |-> {}],
            call_result >>
    ELSE << call_result >>

\* The caller puts the query that RAGPipeline has answered to RAGPipelinePostgres:
\* same chunks, same extended-knowledge setting, and (see NextBoth) the same
\* web content and the same backend behaviour.
ask_other_pipeline ==
    /\ mode = "lexical"
    /\ pc = "done"
    /\ ~reference.recorded
    /\ reference' = [recorded |-> TRUE,
                     path |-> decision_path,
                     has_web_info |-> ctx.has_web_info,
                     web_sources |-> ctx.web_sources,
                     call_results |-> call_results_in_order]
    /\ mode' = "vector"
    /\ pc' = "idle"
    /\ site' = "none"
    /\ ctx' = EmptyCtx
    /\ prompts' = <<>>
    /\ call_result' = NoCall
    /\ response_text' = <<>>
    /\ result' = NoResult
    /\ UNCHANGED <<use_extended_knowledge, chunks, retry, search, store_vars,
                   offline_vars>>

\* The web content of the reference query.
same_web_content(web) ==
    /\ has_web_info_of(web) = reference.has_web_info
    /\ reference.has_web_info => web.items = reference.web_sources

\* r is what the vector pipeline's call number k returns when the backend
\* behaves as it did for call number k of the reference query.
same_backend_behaviour(r, k) ==
    k \in 1..Len(reference.call_results) =>
        <<reference.call_results[k], r>> \in paired_call_results

----------------------------------------------------------------------------
(* PostgresEmbeddingStore *)

NoReference == [recorded |-> FALSE]

NoSearch == [called |-> FALSE, failed |-> FALSE, top_k |-> 0, threshold |-> 0, results |-> <<>>]

NoDocument == [id |-> "", name |-> "", version |-> 0, n_chunks |-> 0]

NoOp == [op |-> "none", outcome |-> "none", empty |-> FALSE, doc |-> NoDocument, deleted |-> 0]

\* Documents as the Drive loader hands them on: two versions of one file, the
\* later one shorter.  n_chunks is the number of chunks _chunk_text makes of
\* the content.
Documents ==
    { [id |-> "d1", name |-> "a.txt", version |-> 1, n_chunks |-> 2],
      [id |-> "d1", name |-> "a.txt", version |-> 2, n_chunks |-> 1] }

TextHashes == {"h1"}

Embeddings == {"e1", "e2"}

\* metadata of upsert: None (or an empty dict), or a dict with document_id and content.
NoMetadata == [k \in {} |-> ""]

UpsertMetadata == { NoMetadata, [document_id |-> "d1", content |-> "t2"] }

\* metadata.get(key, default)
dict_get(m, key, default) == IF key \in DOMAIN m THEN m[key] ELSE default

\* chunk idx of the content of doc
chunk_text_of(doc, idx) == doc.id \o "_v" \o ToString(doc.version) \o "_" \o ToString(idx)

\* the embedding model applied to a text
encode(text) == "emb(" \o text \o ")"

\* compute_text_hash
compute_text_hash(text) == "sha(" \o text \o ")"

\* compute_document_hash: a fingerprint of id and content
compute_document_hash(doc) == "sha(" \o doc.id \o ":" \o ToString(doc.version) \o ")"

\* f"{doc_id}_chunk_{idx}"
chunk_id_of(doc_id, idx) == doc_id \o "_chunk_" \o ToString(idx)

\* One entry of chunk_data in _process_single_document.
chunk_item(doc, idx) ==
    [chunk_id |-> chunk_id_of(doc.id, idx),
     document_id |-> doc.id,
     content |-> chunk_text_of(doc, idx),
     embedding |-> encode(chunk_text_of(doc, idx)),
     metadata |-> [document_name |-> doc.name,
                   chunk_index |-> ToString(idx),
                   text_hash |-> compute_text_hash(chunk_text_of(doc, idx))]]

\* chunk_data: the items of chunks 0..n-1, in order.
chunk_data(doc) == [i \in 1..doc.n_chunks |-> chunk_item(doc, i - 1)]

\* Lists handed to bulk_upsert: none, the chunks of a document, or two items
\* for one chunk_id in a single batch.
ItemLists ==
    { <<>> } \cup { chunk_data(doc) : doc \in Documents }
    \cup { << chunk_item(d, 0), chunk_item(e, 0) >> : d \in Documents, e \in Documents }

\* The row the VALUES clause of upsert builds.
upsert_row(text_hash, embedding, metadata) ==
    [chunk_id |-> text_hash,
     document_id |-> dict_get(metadata, "document_id", "cache"),
     content |-> dict_get(metadata, "content", ""),
     embedding |-> embedding,
     metadata |-> metadata]

\* SET clause of upsert: embedding and metadata (updated_at is not modelled).
upsert_columns == {"embedding", "metadata"}

\* SET clause of bulk_upsert: embedding, content and metadata.
bulk_upsert_columns == {"embedding", "content", "metadata"}

\* DO UPDATE SET: the existing row with the listed columns taken from the new one.
do_update(old, new, columns) ==
    [old EXCEPT !.embedding = IF "embedding" \in columns THEN new.embedding ELSE @,
                !.content = IF "content" \in columns THEN new.content ELSE @,
                !.metadata = IF "metadata" \in columns THEN new.metadata ELSE @]

\* Variant: a plain INSERT, on a table without the unique chunk_id.
insert_plain(table, row, columns) == table \cup {row}

\* INSERT ... ON CONFLICT (chunk_id) DO UPDATE SET columns
insert_on_conflict(table, row, columns) ==
    IF \E r \in table : r.chunk_id = row.chunk_id
    THEN { IF r.chunk_id = row.chunk_id THEN do_update(r, row, columns) ELSE r : r \in table }
    ELSE table \cup {row}

\* execute_batch: the statement once per item, in order, in one transaction.
RECURSIVE execute_batch(_, _, _)
execute_batch(table, items, columns) ==
    IF items = <<>> THEN table
    ELSE execute_batch(insert_on_conflict(table, items[1], columns), Tail(items), columns)

\* Variant: step 1 of _process_single_document left out.
delete_nothing(table, document_id) == table

\* DELETE FROM document_embeddings WHERE document_id = %s
delete_where_document_id(table, document_id) == { r \in table : r.document_id # document_id }

\* INSERT INTO document_metadata ... ON CONFLICT (document_id) DO UPDATE
upsert_document_metadata(table, row) ==
    { m \in table : m.document_id # row.document_id } \cup {row}

\* Variant: the except clause commits what the transaction did so far.
rollback_keeps_pending(committed, pending) == pending

\* self.conn.rollback(): the committed contents stay
rollback(committed, pending) == committed

\* self.conn.commit(): the transaction's contents become the committed ones
commit(committed, pending) == pending

\* The values of the last committed write, per chunk_id, after items were
\* written and committed.
RECURSIVE record_writes(_, _)
record_writes(w, items) ==
    IF items = <<>> THEN w
    ELSE record_writes({ x \in w : x.chunk_id # items[1].chunk_id } \cup
                           { [chunk_id |-> items[1].chunk_id, embedding |-> items[1].embedding,
                              content |-> items[1].content, metadata |-> items[1].metadata] },
                       Tail(items))

\* ... and after rows were deleted: only the rows still present are recorded.
forget_deleted(w, table) == { x \in w : \E r \in table : r.chunk_id = x.chunk_id }

\* _ensure_connection with the connection closed calls _connect(), which raises
\* when the server cannot be reached (reconnects is FALSE).
ensure_connection_raises(reconnects) == conn = "closed" /\ ~reconnects

\* cur.rowcount of a DELETE: the rows of before whose chunk_id is gone in after.
deleted_count(before, after) ==
    Cardinality({ r \in before : \A p \in after : p.chunk_id # r.chunk_id })

\* How the operation ended: returned (with an empty result or not) or raised;
\* for a finished _process_single_document the document, and for a committed
\* write the number of rows it deleted.
ended_deleting(op, outcome, empty, doc, deleted) ==
    last_op' = [op |-> op, outcome |-> outcome, empty |-> empty, doc |-> doc, deleted |-> deleted]

ended(op, outcome, empty, doc) == ended_deleting(op, outcome, empty, doc, 0)

\* A write: _ensure_connection, the statements (pending is what the tables
\* hold inside the transaction when it ends), then commit, or rollback and
\* raise when a statement or the commit fails.
write_transaction(op, pending, pending_meta, items, reconnects, fails) ==
    /\ IF ensure_connection_raises(reconnects)
       THEN /\ ended(op, "raised", FALSE, NoDocument)
            /\ UNCHANGED <<rows, doc_meta, conn, written>>
       ELSE /\ conn' = "open"
            /\ IF fails
               THEN /\ rows' = rollback(rows, pending)
                    /\ doc_meta' = rollback(doc_meta, pending_meta)
                    /\ UNCHANGED written
                    /\ ended(op, "raised", FALSE, NoDocument)
               ELSE /\ rows' = commit(rows, pending)
                    /\ doc_meta' = commit(doc_meta, pending_meta)
                    /\ written' = forget_deleted(record_writes(written, items), pending)
                    /\ ended_deleting(op, "returned", FALSE, NoDocument,
                                      deleted_count(rows, pending))
    /\ UNCHANGED <<mode, query_vars, retry, reference, search, offline_vars>>

\* PostgresEmbeddingStore.upsert
PostgresEmbeddingStore_upsert(text_hash, embedding, metadata, reconnects, fails) ==
    LET row == upsert_row(text_hash, embedding, metadata)
    IN  write_transaction("upsert", insert_on_conflict(rows, row, upsert_columns), doc_meta,
                          <<row>>, reconnects, fails)

\* PostgresEmbeddingStore.bulk_upsert; executed items were processed when the
\* batch, or with all of them executed the commit, failed.
PostgresEmbeddingStore_bulk_upsert(items, reconnects, executed, fails) ==
    /\ fails \/ executed = Len(items)
    /\ IF items = <<>> /\ ~ensure_connection_raises(reconnects)
       THEN /\ conn' = "open"
            /\ ended("bulk_upsert", "returned", FALSE, NoDocument)
            /\ UNCHANGED <<rows, doc_meta, written>>
            /\ UNCHANGED <<mode, query_vars, retry, reference, search, offline_vars>>
       ELSE write_transaction("bulk_upsert",
                              execute_batch(rows, Take(items, executed), bulk_upsert_columns),
                              doc_meta, items, reconnects, fails)

\* PostgresEmbeddingStore.delete_document_chunks
PostgresEmbeddingStore_delete_document_chunks(document_id, reconnects, fails) ==
    write_transaction("delete_document_chunks", delete_where_document_id(rows, document_id),
                      doc_meta, <<>>, reconnects, fails)

\* PostgresEmbeddingStore.update_document_metadata
PostgresEmbeddingStore_update_document_metadata(document_id, document_name, document_hash, chunk_count, reconnects, fails) ==
    write_transaction("update_document_metadata", rows,
                      upsert_document_metadata(doc_meta,
                          [document_id |-> document_id, document_name |-> document_name,
                           document_hash |-> document_hash, chunk_count |-> chunk_count]),
                      <<>>, reconnects, fails)

\* A read: _ensure_connection outside the try, then the query inside it; an
\* exception of the query is swallowed and the empty result returned.
read_operation(op, found, reconnects, fails) ==
    /\ IF ensure_connection_raises(reconnects)
       THEN /\ ended(op, "raised", FALSE, NoDocument)
            /\ UNCHANGED conn
       ELSE /\ conn' = "open"
            /\ ended(op, "returned", fails \/ ~found, NoDocument)
    /\ UNCHANGED <<rows, doc_meta, written>>
    /\ UNCHANGED <<mode, query_vars, retry, reference, search, offline_vars>>

\* PostgresEmbeddingStore.get
PostgresEmbeddingStore_get(text_hash, reconnects, fails) ==
    read_operation("get", \E r \in rows : r.chunk_id = text_hash, reconnects, fails)

\* PostgresEmbeddingStore.get_all_document_hashes
PostgresEmbeddingStore_get_all_document_hashes(reconnects, fails) ==
    read_operation("get_all_document_hashes", doc_meta # {}, reconnects, fails)

\* PostgresEmbeddingStore.cosine_similarity_search, as a read of the store:
\* matches tells whether some row scores above the threshold.
PostgresEmbeddingStore_cosine_similarity_search(matches, reconnects, fails) ==
    /\ matches => rows # {}
    /\ read_operation("cosine_similarity_search", matches, reconnects, fails)

\* The aggregate query of get_stats, over document_metadata:
\* COUNT(DISTINCT document_id) as total_documents, COUNT(*) as total_chunks.
get_stats_query(metadata_table) ==
    [total_documents |-> Cardinality({ m.document_id : m \in metadata_table }),
     total_chunks |-> Cardinality(metadata_table)]

\* PostgresEmbeddingStore.get_stats: the aggregate query always yields a row.
PostgresEmbeddingStore_get_stats(reconnects, fails) ==
    read_operation("get_stats", TRUE, reconnects, fails)

\* EmbeddingPipeline._process_single_document(doc, doc_hash) on the tables of
\* st, with the connection there: delete the document's rows, chunk, embed,
\* bulk_upsert the chunks, update the document metadata.  Each store call
\* commits on its own; failing names the call that raises, which ends the
\* function with what was committed before it.
process_single_document(st, doc, failing) ==
    LET after_delete == commit(st.rows, delete_where_document_id(st.rows, doc.id))
        items == chunk_data(doc)
        in_batch == execute_batch(after_delete, items, bulk_upsert_columns)
        after_upsert == commit(after_delete, in_batch)
        meta_row == [document_id |-> doc.id, document_name |-> doc.name,
                     document_hash |-> compute_document_hash(doc), chunk_count |-> Len(items)]
        with_meta == upsert_document_metadata(st.doc_meta, meta_row)
        deleted == deleted_count(st.rows, after_delete)
    IN  IF failing = "delete_document_chunks"
        THEN [rows |-> rollback(st.rows, delete_where_document_id(st.rows, doc.id)),
              doc_meta |-> st.doc_meta, written |-> st.written,
              outcome |-> "raised", deleted |-> 0]
        ELSE IF items = <<>>
        THEN [rows |-> after_delete, doc_meta |-> st.doc_meta,
              written |-> forget_deleted(st.written, after_delete),
              outcome |-> "returned", deleted |-> deleted]
        ELSE IF failing = "bulk_upsert"
        THEN [rows |-> rollback(after_delete, in_batch), doc_meta |-> st.doc_meta,
              written |-> forget_deleted(st.written, after_delete),
              outcome |-> "raised", deleted |-> 0]
        ELSE IF failing = "update_document_metadata"
        THEN [rows |-> after_upsert, doc_meta |-> rollback(st.doc_meta, with_meta),
              written |-> record_writes(forget_deleted(st.written, after_delete), items),
              outcome |-> "raised", deleted |-> 0]
        ELSE [rows |-> after_upsert, doc_meta |-> commit(st.doc_meta, with_meta),
              written |-> record_writes(forget_deleted(st.written, after_delete), items),
              outcome |-> "returned", deleted |-> deleted]

\* The store calls of _process_single_document, and none of them failing.
ProcessingFailures == {"none", "delete_document_chunks", "bulk_upsert", "update_document_metadata"}

\* The tables as committed, with the record of the last committed writes.
tables == [rows |-> rows, doc_meta |-> doc_meta, written |-> written]

\* One call of _process_single_document on the store.
EmbeddingPipeline_process_single_document(doc, reconnects, failing) ==
    LET op == "process_single_document"
        r == process_single_document(tables, doc, failing)
    IN  /\ IF ensure_connection_raises(reconnects)
           THEN /\ ended(op, "raised", FALSE, doc)
                /\ UNCHANGED <<rows, doc_meta, conn, written>>
           ELSE /\ conn' = "open"
                /\ rows' = r.rows
                /\ doc_meta' = r.doc_meta
                /\ written' = r.written
                /\ ended_deleting(op, r.outcome, FALSE, doc, r.deleted)
        /\ UNCHANGED <<mode, query_vars, retry, reference, search, offline_vars>>

\* PostgresEmbeddingStore.close, or the server dropping the connection.
PostgresEmbeddingStore_close ==
    /\ conn' = "closed"
    /\ UNCHANGED <<rows, doc_meta, written, last_op>>
    /\ UNCHANGED <<mode, query_vars, retry, reference, search, offline_vars>>

\* No re-ingestion under way and no search made.
NoIngest == [pc |-> "idle", doc |-> NoDocument, seen |-> {}]

reingest_frame == UNCHANGED <<mode, query_vars, retry, reference, search, conn, last_op,
                              run, score, chunker, session_vars, load>>

\* _process_single_document, step 1: delete_document_chunks(doc_id) commits,
\* or rolls back and raises
reingest_delete(doc, fails) ==
    LET pending == delete_where_document_id(rows, doc.id)
    IN  /\ ingest.pc = "idle"
        /\ rows' = IF fails THEN rollback(rows, pending) ELSE commit(rows, pending)
        /\ written' = forget_deleted(written, rows')
        /\ ingest' = [ingest EXCEPT !.pc = IF fails THEN "idle" ELSE "deleted", !.doc = doc]
        /\ UNCHANGED doc_meta
        /\ reingest_frame

\* _process_single_document, steps 2 to 5: no chunks and return, or
\* bulk_upsert(chunk_data) commits the batch in one transaction, or rolls
\* back and raises
reingest_bulk_upsert(fails) ==
    LET items == chunk_data(ingest.doc)
        pending == execute_batch(rows, items, bulk_upsert_columns)
    IN  /\ ingest.pc = "deleted"
        /\ rows' = IF fails THEN rollback(rows, pending) ELSE commit(rows, pending)
        /\ written' = IF fails THEN written ELSE record_writes(written, items)
        /\ ingest' = [ingest EXCEPT !.pc = IF fails \/ items = <<>> THEN "idle" ELSE "upserted"]
        /\ UNCHANGED doc_meta
        /\ reingest_frame

\* _process_single_document, step 6: update_document_metadata
reingest_update_metadata(fails) ==
    LET doc == ingest.doc
        pending == upsert_document_metadata(doc_meta,
                       [document_id |-> doc.id, document_name |-> doc.name,
                        document_hash |-> compute_document_hash(doc),
                        chunk_count |-> doc.n_chunks])
    IN  /\ ingest.pc = "upserted"
        /\ doc_meta' = IF fails THEN rollback(doc_meta, pending) ELSE commit(doc_meta, pending)
        /\ ingest' = [ingest EXCEPT !.pc = "idle"]
        /\ UNCHANGED <<rows, written>>
        /\ reingest_frame

\* cosine_similarity_search from a query session, on its own connection: one
\* SELECT over the committed rows, which returns at most top_k of them,
\* those the query embedding matches.
similarity_search(top_k, results) ==
    /\ results \subseteq rows
    /\ Cardinality(results) <= top_k
    /\ ingest' = [ingest EXCEPT !.seen = results]
    /\ UNCHANGED <<rows, doc_meta, written>>
    /\ reingest_frame

\* Thresholds a caller may pass: below, at and between the scores of the rows.
SearchThresholds == {30, 40, 50}

\* PostgresEmbeddingStore.cosine_similarity_search(query, top_k, threshold) over
\* the rows of chunks, returning results, one of the lists the search can
\* return; failed tells that the query raised inside the try.
cosine_similarity_search_call(top_k, threshold, failed, results) ==
    /\ ~search.called
    /\ results \in cosine_similarity_search(top_k, threshold)
    /\ failed => results = <<>>
    /\ search' = [called |-> TRUE, failed |-> failed, top_k |-> top_k,
                  threshold |-> threshold, results |-> results]
    /\ UNCHANGED <<mode, query_vars, retry, reference, store_vars, offline_vars>>

----------------------------------------------------------------------------
(* GoogleDriveService.load_documents and EmbeddingPipeline.process_documents *)

\* The files of the Drive folder: the document a file holds and how loading
\* it goes: "ok", or "error" (download or extraction raises, or no text is
\* extracted).  Two versions of d1, and a second file d2.
OtherDocument == [id |-> "d2", name |-> "b.txt", version |-> 1, n_chunks |-> 1]

DriveFiles ==
    { [doc |-> d, load |-> "ok"] : d \in Documents \cup {OtherDocument} }
    \cup { [doc |-> CHOOSE d \in Documents : d.version = 1, load |-> "error"] }

\* What files().list returns: no file, one file, or a file d1 followed by d2.
Folders ==
    { <<>> } \cup { <<f>> : f \in DriveFiles }
    \cup { p \in DriveFiles \X DriveFiles : p[1].doc.id = "d1" /\ p[2].doc.id = "d2" }

\* The loop of load_documents: a file that raises, or yields no text, is
\* skipped (continue) and the next file is loaded.
RECURSIVE load_files(_)
load_files(files) ==
    IF files = <<>> THEN <<>>
    ELSE IF files[1].load = "ok" THEN <<files[1].doc>> \o load_files(Tail(files))
    ELSE load_files(Tail(files))

\* get_all_document_hashes: {document_id: document_hash} of document_metadata
stored_hashes(metadata_table) ==
    { <<m.document_id, m.document_hash>> : m \in metadata_table }

\* cached_hashes.get(doc['id']) != current_hashes[doc['id']]
hash_differs(cached_hashes, doc) == <<doc.id, compute_document_hash(doc)>> \notin cached_hashes

\* Variant: a document counts as changed only when a different hash is stored.
changed_only_if_stored(documents, cached_hashes, force_rebuild) ==
    SelectSeq(documents, LAMBDA doc :
        force_rebuild \/ \E h \in cached_hashes : h[1] = doc.id /\ h[2] # compute_document_hash(doc))

\* changed_docs of process_documents
changed_docs(documents, cached_hashes, force_rebuild) ==
    SelectSeq(documents, LAMBDA doc : force_rebuild \/ hash_differs(cached_hashes, doc))

\* for doc in changed_docs: self._process_single_document(doc, ...): the
\* documents in order on the tables of st; document number failing_doc raises
\* in its call failing, which ends the loop.  done are the documents whose
\* processing returned, and offending is the one that raised.
RECURSIVE process_each(_, _, _, _, _)
process_each(st, docs, failing_doc, failing, done) ==
    IF docs = <<>>
    THEN [rows |-> st.rows, doc_meta |-> st.doc_meta, written |-> st.written,
          outcome |-> "returned", completed |-> done, offending |-> NoDocument]
    ELSE LET r == process_single_document(st, docs[1],
                      IF failing_doc = Len(done) + 1 THEN failing ELSE "none")
         IN  IF r.outcome = "raised"
             THEN [rows |-> r.rows, doc_meta |-> r.doc_meta, written |-> r.written,
                   outcome |-> "raised", completed |-> done, offending |-> docs[1]]
             ELSE process_each([rows |-> r.rows, doc_meta |-> r.doc_meta, written |-> r.written],
                               Tail(docs), failing_doc, failing, Append(done, docs[1]))

\* How a run of process_documents ended.
ran(force_rebuild, files, documents, cached_hashes, changed, completed, offending, outcome) ==
    run' = [called |-> TRUE, force_rebuild |-> force_rebuild, files |-> files,
            documents |-> documents, stored |-> stored_hashes(doc_meta),
            cached_hashes |-> cached_hashes, changed |-> changed,
            completed |-> completed, offending |-> offending, outcome |-> outcome]

\* EmbeddingPipeline.process_documents(force_rebuild) on the folder files:
\* load the documents, read the stored hashes unless forced, process the
\* changed documents in order, report the statistics.  list_fails: listing the
\* folder raises; hashes_fail: the query of get_all_document_hashes fails and
\* {} is returned; failing_doc, failing: the changed document and the store
\* call of its processing that raises (0: none).
EmbeddingPipeline_process_documents(files, force_rebuild, list_fails, reconnects, hashes_fail, failing_doc, failing) ==
    LET documents == load_files(files)
        cached_hashes == IF force_rebuild \/ hashes_fail THEN {} ELSE stored_hashes(doc_meta)
        changed == changed_docs(documents, cached_hashes, force_rebuild)
        r == process_each(tables, changed, failing_doc, failing, <<>>)
    IN  /\ IF list_fails
           THEN /\ ran(force_rebuild, files, <<>>, {}, <<>>, <<>>, NoDocument, "raised")
                /\ UNCHANGED <<rows, doc_meta, conn, written>>
           ELSE IF ensure_connection_raises(reconnects) /\ (~force_rebuild \/ changed # <<>>)
           THEN /\ ran(force_rebuild, files, documents, {}, <<>>, <<>>, NoDocument, "raised")
                /\ UNCHANGED <<rows, doc_meta, conn, written>>
           ELSE /\ conn' = IF force_rebuild /\ changed = <<>> THEN conn ELSE "open"
                /\ rows' = r.rows
                /\ doc_meta' = r.doc_meta
                /\ written' = r.written
                /\ ran(force_rebuild, files, documents, cached_hashes, changed,
                       r.completed, r.offending, r.outcome)
        /\ last_op' = NoOp
        /\ UNCHANGED <<mode, query_vars, retry, reference, search, score, chunker, session_vars, ingest, load>>

----------------------------------------------------------------------------
(* RAGPipeline._retrieve_relevant_chunks called on its own *)

\* Chunks of a lexical corpus: those of ChunkKinds and one sharing no keyword
\* with the query.
LexicalChunkKinds ==
    ChunkKinds \cup { [document_name |-> "d2", score |-> 0, url |-> NoUrl] }

LexicalCorpora == UNION { [1..n -> LexicalChunkKinds] : n \in 0..MaxChunks }

\* One call of _retrieve_relevant_chunks(query, top_k) on self.chunks; failed
\* tells that it raised 'No documents loaded'.
RAGPipeline_retrieve_relevant_chunks_call(top_k) ==
    LET r == RAGPipeline_retrieve_relevant_chunks(top_k)
    IN  /\ ~search.called
        /\ search' = [called |-> TRUE, failed |-> r.raised, top_k |-> top_k,
                      threshold |-> 0, results |-> r.chunks]
        /\ UNCHANGED <<mode, query_vars, retry, reference, store_vars, offline_vars>>

----------------------------------------------------------------------------
(* RAGPipeline._simple_relevance_score *)

\* A string is the sequence of its characters.  Words the queries and texts
\* are made of: a stop word, a two-letter word, two words of which one is
\* inside the other up to case, and a stop word followed by punctuation.
MaxWords == 2

Vocabulary ==
    { <<"t", "h", "e">>, <<"A", "I">>, <<"c", "a", "t">>, <<"C", "a", "t", "s">>, <<"o", "f", "?">> }

RECURSIVE join_words(_)
join_words(ws) ==
    IF ws = <<>> THEN <<>>
    ELSE IF Len(ws) = 1 THEN ws[1]
    ELSE ws[1] \o <<" ">> \o join_words(Tail(ws))

Strings == { join_words(ws) : ws \in UNION { [1..n -> Vocabulary] : n \in 0..MaxWords } }

\* str.lower() on one character
lower_char(c) ==
    CASE c = "A" -> "a" [] c = "C" -> "c" [] c = "I" -> "i" [] OTHER -> c

\* str.lower()
str_lower(s) == [i \in 1..Len(s) |-> lower_char(s[i])]

\* the class \w of re
is_word_char(c) == c \notin {" ", "?"}

\* re.findall(r'\w+', s): the maximal runs of word characters, in order;
\* current is the run being read and found the runs read so far.
RECURSIVE findall_words(_, _, _)
findall_words(s, current, found) ==
    LET closed == IF current = <<>> THEN found ELSE Append(found, current)
    IN  IF s = <<>> THEN closed
        ELSE IF is_word_char(s[1]) THEN findall_words(Tail(s), Append(current, s[1]), found)
        ELSE findall_words(Tail(s), <<>>, closed)

stop_words ==
    { <<"t", "h", "e">>, <<"i", "s">>, <<"a", "t">>, <<"w", "h", "i", "c", "h">>,
      <<"o", "n">>, <<"a">>, <<"a", "n">>, <<"a", "n", "d">>, <<"o", "r">>,
      <<"b", "u", "t">>, <<"i", "n">>, <<"w", "i", "t", "h">>, <<"t", "o">>,
      <<"f", "o", "r">>, <<"o", "f">>, <<"a", "s">>, <<"b", "y">>,
      <<"f", "r", "o", "m">> }

\* Variant: the words are taken from the query as given, not lowered.
query_words_as_given(query) ==
    SelectSeq(findall_words(query, <<>>, <<>>),
              LAMBDA word : word \notin stop_words /\ Len(word) > 2)

\* query_words: the words of the lowered query that are no stop words and
\* longer than 2
query_words(query) ==
    SelectSeq(findall_words(str_lower(query), <<>>, <<>>),
              LAMBDA word : word \notin stop_words /\ Len(word) > 2)

\* word in text: word occurs in text as a substring
is_in(word, text) ==
    \E i \in 0..(Len(text) - Len(word)) : SubSeq(text, i + 1, i + Len(word)) = word

\* Variant: the text is searched as given, not lowered.
text_as_given(text) == text

\* text_lower = text.lower()
text_lower(text) == str_lower(text)

\* Variant: no cap.
uncapped(num, den) == [num |-> num, den |-> den]

\* min(score, 1.0), the score being the fraction num / den
min_one(num, den) == IF num > den THEN [num |-> den, den |-> den] ELSE [num |-> num, den |-> den]

\* RAGPipeline._simple_relevance_score(query, text), as a fraction: the share
\* of the query words found in the text, plus 0.3 when the whole lowered
\* query occurs in it, capped at 1.
simple_relevance_score(query, text) ==
    LET words == query_words(query)
        matches == Cardinality({ i \in 1..Len(words) : is_in(words[i], text_lower(text)) })
        bonus == IF is_in(str_lower(query), text_lower(text)) THEN 3 * Len(words) ELSE 0
    IN  IF words = <<>> THEN [num |-> 0, den |-> 1]
        ELSE min_one(10 * matches + bonus, 10 * Len(words))

NoScore == [called |-> FALSE, query |-> <<>>, text |-> <<>>, value |-> [num |-> 0, den |-> 1]]

\* One call of _simple_relevance_score on the query and text of score.
RAGPipeline_simple_relevance_score ==
    /\ ~score.called
    /\ score' = [score EXCEPT !.called = TRUE,
                               !.value = simple_relevance_score(score.query, score.text)]
    /\ UNCHANGED <<mode, query_vars, retry, reference, search, store_vars, run, chunker,
                   session_vars, ingest, load>>

----------------------------------------------------------------------------
(* _chunk_text (RAGPipeline and EmbeddingPipeline: the same code) *)

\* Texts are put together from up to MaxBlocks pieces: ten letters, a full
\* stop, a space.
MaxBlocks == 6

Blocks == { <<"a", "a", "a", "a", "a", "a", "a", "a", "a", "a">>, <<".">>, <<" ">> }

RECURSIVE concat(_)
concat(ss) == IF ss = <<>> THEN <<>> ELSE ss[1] \o concat(Tail(ss))

Texts == { concat(bs) : bs \in UNION { [1..n -> Blocks] : n \in 0..MaxBlocks } }

\* chunk_size and overlap with 0 < overlap < chunk_size.
ChunkParameters ==
    { [chunk_size |-> 24, overlap |-> 4], [chunk_size |-> 24, overlap |-> 20] }

\* Chunks of at most this many characters are dropped at the end.
MIN_CHUNK_CHARS == 20

\* Iterations of the while loop that are followed.
MaxIterations == 6

\* re.sub(r'\s+', ' ', s): every run of spaces becomes one space
RECURSIVE collapse_spaces(_)
collapse_spaces(s) ==
    IF Len(s) < 2 THEN s
    ELSE IF is_space(s[1]) /\ is_space(s[2]) THEN collapse_spaces(Tail(s))
    ELSE <<s[1]>> \o collapse_spaces(Tail(s))

\* text = re.sub(r'\s+', ' ', text.strip())
normalize(text) == collapse_spaces(strip(text))

\* A slice bound as Python reads it on a string of length n: negative bounds
\* count from the end, and bounds outside the string are clipped.
slice_bound(i, n) ==
    IF i < 0 THEN (IF i + n < 0 THEN 0 ELSE i + n) ELSE (IF i > n THEN n ELSE i)

\* s[a:b]
slice(s, a, b) ==
    LET lo == slice_bound(a, Len(s))
        hi == slice_bound(b, Len(s))
    IN  IF lo >= hi THEN <<>> ELSE SubSeq(s, lo + 1, hi)

\* s.rfind(sub): the last index at which sub occurs in s, or -1
rfind(s, sub) ==
    LET at == { i \in 0..(Len(s) - Len(sub)) : SubSeq(s, i + 1, i + Len(sub)) = sub }
    IN  IF at = {} THEN -1 ELSE CHOOSE i \in at : \A j \in at : j <= i

\* The end of the window that starts at start: chunk_size further, or after
\* the last sentence end in the second half of the window, or at the last
\* space in its last three tenths.
window_end(text, start, chunk_size) ==
    LET chunk_text == slice(text, start, start + chunk_size)
        last_sentence == rfind(chunk_text, <<".", " ">>)
        last_space == rfind(chunk_text, <<" ">>)
    IN  IF 2 * last_sentence > chunk_size THEN start + last_sentence + 1
        ELSE IF 10 * last_space > 7 * chunk_size THEN start + last_space
        ELSE start + chunk_size

\* [chunk for chunk in chunks if len(chunk.strip()) > 20]
filter_short(cs) == SelectSeq(cs, LAMBDA chunk : Len(strip(chunk)) > MIN_CHUNK_CHARS)

NoChunker ==
    [pc |-> "idle", text |-> <<>>, chunk_size |-> 0, overlap |-> 0, start |-> 0,
     chunks |-> <<>>, result |-> <<>>, iterations |-> 0]

\* _chunk_text up to the loop: the text is normalized, and a text of at most
\* chunk_size characters is returned as the only chunk.
chunk_text_enter ==
    LET text == normalize(chunker.text)
    IN  /\ chunker.pc = "called"
        /\ chunker' = IF Len(text) <= chunker.chunk_size
                      THEN [chunker EXCEPT !.pc = "returned", !.text = text, !.result = <<text>>]
                      ELSE [chunker EXCEPT !.pc = "loop", !.text = text, !.start = 0,
                                           !.chunks = <<>>]
        /\ UNCHANGED <<mode, query_vars, retry, reference, search, store_vars, run, score,
                       session_vars, ingest, load>>

\* One test of the loop condition and, when it holds, one iteration; the
\* function returns the filtered chunks when the loop is left.
chunk_text_iteration ==
    LET text == chunker.text
        start == chunker.start
        end == window_end(text, start, chunker.chunk_size)
    IN  /\ chunker.pc = "loop"
        /\ chunker.iterations < MaxIterations
        /\ chunker' =
               IF ~(start < Len(text))
               THEN [chunker EXCEPT !.pc = "returned", !.result = filter_short(chunker.chunks)]
               ELSE IF start + chunker.chunk_size >= Len(text)
               THEN [chunker EXCEPT !.pc = "returned",
                                    !.iterations = @ + 1,
                                    !.chunks = Append(@, slice(text, start, Len(text))),
                                    !.result = filter_short(
                                        Append(chunker.chunks, slice(text, start, Len(text))))]
               ELSE [chunker EXCEPT !.iterations = @ + 1,
                                    !.chunks = Append(@, strip(slice(text, start, end))),
                                    !.start = end - chunker.overlap]
        /\ UNCHANGED <<mode, query_vars, retry, reference, search, store_vars, run, score,
                       session_vars, ingest, load>>

----------------------------------------------------------------------------
(* RAGPipeline.initialize_with_documents *)

\* Documents handed to initialize_with_documents: the name, the chunks that
\* _chunk_text makes of the content, and whether a key of the dict is
\* missing.
LoadedDocuments ==
    { [name |-> "d1", malformed |-> FALSE,
       pieces |-> << [document_name |-> "d1", score |-> 40, url |-> "u1"],
                     [document_name |-> "d1", score |-> 50, url |-> NoUrl] >>],
      [name |-> "d1", malformed |-> FALSE, pieces |-> <<>>],
      [name |-> "d2", malformed |-> FALSE,
       pieces |-> << [document_name |-> "d2", score |-> 80, url |-> NoUrl] >>],
      [name |-> "d2", malformed |-> TRUE, pieces |-> <<>>] }

DocumentLists == UNION { [1..n -> LoadedDocuments] : n \in 0..2 }

\* The chunks of an earlier load.
EarlierLoads == { <<>> } \cup { d.pieces : d \in LoadedDocuments }

\* The loop over the documents, appending to self.chunks: document['name']
\* or document['content'] of a malformed document raises and the loop ends
\* with what was appended so far.
RECURSIVE append_chunks(_, _)
append_chunks(documents, appended) ==
    IF documents = <<>> THEN [chunks |-> appended, raised |-> FALSE]
    ELSE IF documents[1].malformed THEN [chunks |-> appended, raised |-> TRUE]
    ELSE append_chunks(Tail(documents), appended \o documents[1].pieces)

\* self.chunks = [], the loop, and ValueError when no chunk was appended.
initialize_with_documents(documents) ==
    LET r == append_chunks(documents, <<>>)
    IN  [chunks |-> r.chunks, raised |-> r.raised \/ r.chunks = <<>>]

NoLoad == [called |-> FALSE, raised |-> FALSE, before |-> <<>>, documents |-> <<>>]

\* One call of initialize_with_documents(documents); the except clause
\* prints and re-raises.
RAGPipeline_initialize_with_documents(documents) ==
    LET r == initialize_with_documents(documents)
    IN  /\ chunks' = r.chunks
        /\ load' = [called |-> TRUE, raised |-> r.raised, before |-> chunks,
                    documents |-> documents]
        /\ UNCHANGED <<mode, use_extended_knowledge, pc, site, ctx, prompts, call_result,
                       response_text, result, retry, reference, search, store_vars,
                       run, score, chunker, session_vars, ingest>>

----------------------------------------------------------------------------
(* SessionManager *)

\* The clock runs from 0 to MaxTime ticks; Timeout is timeout_minutes in ticks.
MaxTime == 3
Timeout == 2

SessionIds == {"s1"}

\* Threads that call the methods, and the cleanup thread.
Callers == {"t1", "t2"}
Sweeper == "sweep"

\* A session id that uuid4 has not produced yet.
NoSession == [state |-> "unused", created_at |-> 0, last_activity |-> 0, expires_at |-> 0]

Idle == [pc |-> "idle", op |-> "none", session_id |-> "none", ret |-> "none", tmp |-> 0,
         listed |-> {}]

\* session_id in self.sessions
present(session_id) == sessions[session_id].state = "present"

\* Variant: a lock that never makes a thread wait.
can_acquire_always(holder) == TRUE

\* threading.Lock: acquired only when no thread holds it
can_acquire(holder) == holder = "free"

\* The first statement inside the with block of each method.
first_statement(op) ==
    CASE op = "create_session" -> "evaluate"
      [] op = "update_activity" -> "check"
      [] op = "get_session_info" -> "read"
      [] op = "clear_session" -> "delete"
      [] op = "is_session_active" -> "test"
      [] op = "get_active_sessions" -> "list"
      [] op = "get_session_count" -> "count"

session_frame == UNCHANGED <<mode, query_vars, retry, reference, search, store_vars,
                             run, score, chunker, ingest, load>>

\* Thread t calls a method; create_session draws with uuid4 an id that no
\* call has drawn before ("issued": drawn, not in the map).
call(t, op, session_id) ==
    /\ threads[t].pc = "idle"
    /\ op = "create_session" => sessions[session_id].state = "unused"
    /\ sessions' = IF op = "create_session"
                   THEN [sessions EXCEPT ![session_id].state = "issued"]
                   ELSE sessions
    /\ threads' = [threads EXCEPT ![t] = [pc |-> "acquire", op |-> op,
                                          session_id |-> session_id, ret |-> "none", tmp |-> 0,
                                          listed |-> {}]]
    /\ UNCHANGED <<lock, now>>
    /\ session_frame

\* with self.lock: entered
acquire(t) ==
    /\ threads[t].pc = "acquire"
    /\ can_acquire(lock)
    /\ lock' = t
    /\ threads' = [threads EXCEPT ![t].pc =
                       IF t = Sweeper THEN "scan" ELSE first_statement(threads[t].op)]
    /\ UNCHANGED <<sessions, now>>
    /\ session_frame

\* The with block is left and the method returns ret.
returns(t, ret) ==
    /\ lock' = "free"
    /\ threads' = [threads EXCEPT ![t].pc = "idle", ![t].ret = ret, ![t].tmp = 0]

\* create_session: 'created_at' and 'last_activity' of the new record
create_session_evaluate(t) ==
    /\ threads[t].pc = "evaluate"
    /\ threads' = [threads EXCEPT ![t].pc = "store", ![t].tmp = now]
    /\ UNCHANGED <<sessions, lock, now>>
    /\ session_frame

\* create_session: 'expires_at', and the record is put into the map
create_session_store(t) ==
    /\ threads[t].pc = "store"
    /\ sessions' = [sessions EXCEPT ![threads[t].session_id] =
                        [state |-> "present", created_at |-> threads[t].tmp,
                         last_activity |-> threads[t].tmp, expires_at |-> now + Timeout]]
    /\ returns(t, threads[t].session_id)
    /\ UNCHANGED now
    /\ session_frame

\* update_activity: the two tests that return False
update_activity_check(t) ==
    LET session_id == threads[t].session_id
    IN  /\ threads[t].pc = "check"
        /\ IF ~present(session_id) \/ now >= sessions[session_id].expires_at
           THEN returns(t, "False")
           ELSE /\ threads' = [threads EXCEPT ![t].pc = "touch"]
                /\ UNCHANGED lock
        /\ UNCHANGED <<sessions, now>>
        /\ session_frame

\* update_activity: self.sessions[session_id]['last_activity'] = datetime.now()
update_activity_touch(t) ==
    /\ threads[t].pc = "touch"
    /\ sessions' = [sessions EXCEPT ![threads[t].session_id].last_activity = now]
    /\ threads' = [threads EXCEPT ![t].pc = "extend"]
    /\ UNCHANGED <<lock, now>>
    /\ session_frame

\* update_activity: ...['expires_at'] = datetime.now() + timedelta(...); return True
update_activity_extend(t) ==
    /\ threads[t].pc = "extend"
    /\ sessions' = [sessions EXCEPT ![threads[t].session_id].expires_at = now + Timeout]
    /\ returns(t, "True")
    /\ UNCHANGED now
    /\ session_frame

\* get_session_info: None for a session that is absent or expired, else its record
get_session_info_read(t) ==
    LET session_id == threads[t].session_id
    IN  /\ threads[t].pc = "read"
        /\ returns(t, IF present(session_id) /\ now < sessions[session_id].expires_at
                      THEN "info" ELSE "None")
        /\ UNCHANGED <<sessions, now>>
        /\ session_frame

\* clear_session
clear_session_delete(t) ==
    LET session_id == threads[t].session_id
    IN  /\ threads[t].pc = "delete"
        /\ IF present(session_id)
           THEN /\ sessions' = [sessions EXCEPT ![session_id].state = "cleared"]
                /\ returns(t, "True")
           ELSE /\ UNCHANGED sessions
                /\ returns(t, "False")
        /\ UNCHANGED now
        /\ session_frame

\* is_session_active
is_session_active_test(t) ==
    LET session_id == threads[t].session_id
    IN  /\ threads[t].pc = "test"
        /\ returns(t, IF present(session_id) /\ now < sessions[session_id].expires_at
                      THEN "True" ELSE "False")
        /\ UNCHANGED <<sessions, now>>
        /\ session_frame

\* Variant: every session in the map counts as active.
sessions_in_map(current_time) == {id \in SessionIds : present(id)}

\* The sessions in the map with current_time < expires_at
active_sessions(current_time) ==
    {id \in SessionIds : present(id) /\ current_time < sessions[id].expires_at}

\* get_active_sessions: the ids it returns are left in listed
get_active_sessions_list(t) ==
    /\ threads[t].pc = "list"
    /\ lock' = "free"
    /\ threads' = [threads EXCEPT ![t].pc = "idle", ![t].ret = "list",
                                  ![t].listed = active_sessions(now)]
    /\ UNCHANGED <<sessions, now>>
    /\ session_frame

\* get_session_count: the count it returns is left in tmp
get_session_count_count(t) ==
    /\ threads[t].pc = "count"
    /\ lock' = "free"
    /\ threads' = [threads EXCEPT ![t].pc = "idle", ![t].ret = "count",
                                  ![t].tmp = Cardinality(active_sessions(now))]
    /\ UNCHANGED <<sessions, now>>
    /\ session_frame

\* _cleanup_expired_sessions: time.sleep(60) is over
sweep_wake ==
    /\ threads[Sweeper].pc = "idle"
    /\ threads' = [threads EXCEPT ![Sweeper].pc = "acquire", ![Sweeper].op = "sweep"]
    /\ UNCHANGED <<sessions, lock, now>>
    /\ session_frame

\* Variant: a session expires one timeout after its creation.
expired_since_creation(current_time, session) == current_time >= session.created_at + Timeout

\* _cleanup_expired_sessions: current_time >= session['expires_at']
expired(current_time, session) == current_time >= session.expires_at

\* _cleanup_expired_sessions: inside the lock, the sessions with
\* current_time >= expires_at are collected into expired_sessions
sweep_scan ==
    /\ threads[Sweeper].pc = "scan"
    /\ threads' = [threads EXCEPT ![Sweeper].pc = "remove",
                                  ![Sweeper].listed =
                                      {id \in SessionIds : present(id) /\ expired(now, sessions[id])}]
    /\ UNCHANGED <<sessions, lock, now>>
    /\ session_frame

\* _cleanup_expired_sessions: del self.sessions[session_id] for each
\* collected id, and the lock is released
sweep_remove ==
    /\ threads[Sweeper].pc = "remove"
    /\ sessions' = [id \in SessionIds |->
                        IF id \in threads[Sweeper].listed
                        THEN [sessions[id] EXCEPT !.state = "swept"]
                        ELSE sessions[id]]
    /\ lock' = "free"
    /\ threads' = [threads EXCEPT ![Sweeper].pc = "idle", ![Sweeper].listed = {}]
    /\ UNCHANGED now
    /\ session_frame

\* Variant: an exception ends the cleanup thread.
exception_ends_thread == "dead"

\* _cleanup_expired_sessions: after the except clause the while loop goes on
\* with the next time.sleep(60)
after_exception == "idle"

\* _cleanup_expired_sessions: an exception is raised inside the with block,
\* before the first deletion or after some of them; the lock is released
\* and the except clause of the loop catches it
sweep_raises ==
    /\ threads[Sweeper].pc \in {"scan", "remove"}
    /\ \E deleted \in SUBSET threads[Sweeper].listed :
           sessions' = [id \in SessionIds |->
                           IF id \in deleted
                           THEN [sessions[id] EXCEPT !.state = "swept"]
                           ELSE sessions[id]]
    /\ lock' = "free"
    /\ threads' = [threads EXCEPT ![Sweeper].pc = after_exception,
                                  ![Sweeper].ret = "raised",
                                  ![Sweeper].listed = {}]
    /\ UNCHANGED now
    /\ session_frame

\* The clock advances.
tick ==
    /\ now < MaxTime
    /\ now' = now + 1
    /\ UNCHANGED <<sessions, lock, threads>>
    /\ session_frame

\* SessionManager.__init__: no session, the lock free, the cleanup thread started.
InitSessions ==
    /\ sessions = [id \in SessionIds |-> NoSession]
    /\ lock = "free"
    /\ now = 0
    /\ threads = [t \in Callers \cup {Sweeper} |-> Idle]

\* No run of process_documents yet.
NoRun == [called |-> FALSE]

InitOffline ==
    /\ run = NoRun
    /\ score = NoScore
    /\ chunker = NoChunker
    /\ InitSessions
    /\ ingest = NoIngest
    /\ load = NoLoad

\* The store after __init__ connected, with both tables empty.
InitStore ==
    /\ rows = {}
    /\ doc_meta = {}
    /\ conn = "open"
    /\ written = {}
    /\ last_op = NoOp

----------------------------------------------------------------------------
(* Specifications *)

\* One query through generate_response of either pipeline.
Init ==
    /\ mode \in {"lexical", "vector"}
    /\ use_extended_knowledge \in BOOLEAN
    /\ chunks \in Corpora
    /\ pc = "idle"
    /\ site = "none"
    /\ ctx = EmptyCtx
    /\ prompts = <<>>
    /\ call_result = NoCall
    /\ response_text = <<>>
    /\ result = NoResult
    /\ retry = retry_idle
    /\ reference = NoReference
    /\ search = NoSearch
    /\ InitStore
    /\ InitOffline

Next ==
    \/ \E web \in WebInputs : RAGPipeline_generate_response(web)
    \/ \E r \in RAGPipeline_call_results : RAGPipeline_call_gemini_with_retry(r)
    \/ RAGPipeline_after_grounded
    \/ RAGPipeline_after_fallback
    \/ RAGPipeline_after_general
    \/ RAGPipeline_except
    \/ \E failed \in BOOLEAN :
          \E relevant_chunks \in RAGPipelinePostgres_retrieve_relevant_chunks(TOP_K, failed) :
              \E web \in WebInputs, fetchable \in SUBSET Urls :
                  RAGPipelinePostgres_generate_response(web, relevant_chunks, failed, fetchable)
    \/ \E r \in RAGPipelinePostgres_call_results : RAGPipelinePostgres_call_gemini_with_retry(r)
    \/ RAGPipelinePostgres_after_grounded
    \/ RAGPipelinePostgres_after_general
    \/ RAGPipelinePostgres_except

Spec == Init /\ [][Next]_vars

\* One _call_gemini_with_retry(prompt, max_retries) of either pipeline, attempt by attempt.
InitRetry ==
    /\ mode \in {"lexical", "vector"}
    /\ use_extended_knowledge = TRUE
    /\ chunks = <<>>
    /\ pc = "calling"
    /\ site = "general"
    /\ ctx = EmptyCtx
    /\ prompts = <<general_knowledge_prompt>>
    /\ call_result = NoCall
    /\ response_text = <<>>
    /\ result = NoResult
    /\ \E n \in 1..MaxRetries : retry = retry_start(n)
    /\ reference = NoReference
    /\ search = NoSearch
    /\ InitStore
    /\ InitOffline

NextRetry == \E o \in BackendOutcomes : call_gemini_attempt(o)

SpecRetry == InitRetry /\ [][NextRetry]_vars

\* One query answered by RAGPipeline and then, with the same inputs, by
\* RAGPipelinePostgres over a store that holds the same chunks and answers.
InitBoth == Init /\ mode = "lexical"

NextBoth ==
    \/ \E web \in WebInputs : RAGPipeline_generate_response(web)
    \/ \E r \in RAGPipeline_call_results : RAGPipeline_call_gemini_with_retry(r)
    \/ RAGPipeline_after_grounded
    \/ RAGPipeline_after_fallback
    \/ RAGPipeline_after_general
    \/ RAGPipeline_except
    \/ ask_other_pipeline
    \/ /\ reference.recorded
       /\ \E relevant_chunks \in RAGPipelinePostgres_retrieve_relevant_chunks(TOP_K, FALSE) :
             \E web \in WebInputs, fetchable \in SUBSET Urls :
                 /\ same_web_content(web)
                 /\ RAGPipelinePostgres_generate_response(web, relevant_chunks, FALSE, fetchable)
    \/ /\ reference.recorded
       /\ \E r \in RAGPipelinePostgres_call_results :
             /\ same_backend_behaviour(r, Len(prompts))
             /\ RAGPipelinePostgres_call_gemini_with_retry(r)
    \/ RAGPipelinePostgres_after_grounded
    \/ RAGPipelinePostgres_after_general
    \/ RAGPipelinePostgres_except

SpecBoth == InitBoth /\ [][NextBoth]_vars

\* Similarity searches over a table of rows with known scores.
InitSearch ==
    /\ mode = "vector"
    /\ use_extended_knowledge = TRUE
    /\ chunks \in Corpora
    /\ pc = "idle"
    /\ site = "none"
    /\ ctx = EmptyCtx
    /\ prompts = <<>>
    /\ call_result = NoCall
    /\ response_text = <<>>
    /\ result = NoResult
    /\ retry = retry_idle
    /\ reference = NoReference
    /\ search = NoSearch
    /\ InitStore
    /\ InitOffline

NextSearch ==
    \E top_k \in 1..TOP_K, threshold \in SearchThresholds :
        \E failed \in BOOLEAN :
            \E results \in (IF failed THEN { <<>> } ELSE select_by_similarity(top_k, threshold)) :
                cosine_similarity_search_call(top_k, threshold, failed, results)

SpecSearch == InitSearch /\ [][NextSearch]_vars

\* One lexical retrieval over a corpus that holds chunks scoring 0.
InitLexical ==
    /\ mode = "lexical"
    /\ use_extended_knowledge = TRUE
    /\ chunks \in LexicalCorpora
    /\ pc = "idle"
    /\ site = "none"
    /\ ctx = EmptyCtx
    /\ prompts = <<>>
    /\ call_result = NoCall
    /\ response_text = <<>>
    /\ result = NoResult
    /\ retry = retry_idle
    /\ reference = NoReference
    /\ search = NoSearch
    /\ InitStore
    /\ InitOffline

NextLexical ==
    \E top_k \in 1..TOP_K : RAGPipeline_retrieve_relevant_chunks_call(top_k)

SpecLexical == InitLexical /\ [][NextLexical]_vars

\* One call of _simple_relevance_score on a query and a text.
InitScore ==
    /\ mode = "lexical"
    /\ use_extended_knowledge = TRUE
    /\ chunks = <<>>
    /\ pc = "idle"
    /\ site = "none"
    /\ ctx = EmptyCtx
    /\ prompts = <<>>
    /\ call_result = NoCall
    /\ response_text = <<>>
    /\ result = NoResult
    /\ retry = retry_idle
    /\ reference = NoReference
    /\ search = NoSearch
    /\ InitStore
    /\ run = NoRun
    /\ chunker = NoChunker
    /\ InitSessions
    /\ ingest = NoIngest
    /\ load = NoLoad
    /\ \E query \in Strings, text \in Strings :
           score = [NoScore EXCEPT !.query = query, !.text = text]

NextScore == RAGPipeline_simple_relevance_score

SpecScore == InitScore /\ [][NextScore]_vars

\* One call of _chunk_text on a text, with a chunk_size and an overlap.
InitChunk ==
    /\ mode = "lexical"
    /\ use_extended_knowledge = TRUE
    /\ chunks = <<>>
    /\ pc = "idle"
    /\ site = "none"
    /\ ctx = EmptyCtx
    /\ prompts = <<>>
    /\ call_result = NoCall
    /\ response_text = <<>>
    /\ result = NoResult
    /\ retry = retry_idle
    /\ reference = NoReference
    /\ search = NoSearch
    /\ InitStore
    /\ run = NoRun
    /\ score = NoScore
    /\ InitSessions
    /\ ingest = NoIngest
    /\ load = NoLoad
    /\ \E text \in Texts, p \in ChunkParameters :
           chunker = [NoChunker EXCEPT !.pc = "called", !.text = text,
                                       !.chunk_size = p.chunk_size, !.overlap = p.overlap]

NextChunk ==
    \/ chunk_text_enter
    \/ chunk_text_iteration

SpecChunk == InitChunk /\ [][NextChunk]_vars

\* The embedding store under any sequence of its operations.
InitStoreSpec ==
    /\ mode = "vector"
    /\ use_extended_knowledge = TRUE
    /\ chunks = <<>>
    /\ pc = "idle"
    /\ site = "none"
    /\ ctx = EmptyCtx
    /\ prompts = <<>>
    /\ call_result = NoCall
    /\ response_text = <<>>
    /\ result = NoResult
    /\ retry = retry_idle
    /\ reference = NoReference
    /\ search = NoSearch
    /\ InitStore
    /\ InitOffline

\* When the connection is open _ensure_connection has nothing to do.
ReconnectChoices == IF conn = "closed" THEN BOOLEAN ELSE {TRUE}

NextStore ==
    \/ \E text_hash \in TextHashes, embedding \in Embeddings, metadata \in UpsertMetadata,
          reconnects \in ReconnectChoices, fails \in BOOLEAN :
          PostgresEmbeddingStore_upsert(text_hash, embedding, metadata, reconnects, fails)
    \/ \E items \in ItemLists, reconnects \in ReconnectChoices, fails \in BOOLEAN :
          \E executed \in 0..Len(items) :
              PostgresEmbeddingStore_bulk_upsert(items, reconnects, executed, fails)
    \/ \E document_id \in {"d1", "cache"}, reconnects \in ReconnectChoices, fails \in BOOLEAN :
          PostgresEmbeddingStore_delete_document_chunks(document_id, reconnects, fails)
    \/ \E doc \in Documents, reconnects \in ReconnectChoices, fails \in BOOLEAN :
          PostgresEmbeddingStore_update_document_metadata(
              doc.id, doc.name, compute_document_hash(doc), doc.n_chunks, reconnects, fails)
    \/ \E text_hash \in TextHashes, reconnects \in ReconnectChoices, fails \in BOOLEAN :
          PostgresEmbeddingStore_get(text_hash, reconnects, fails)
    \/ \E reconnects \in ReconnectChoices, fails \in BOOLEAN :
          PostgresEmbeddingStore_get_all_document_hashes(reconnects, fails)
    \/ \E matches \in BOOLEAN, reconnects \in ReconnectChoices, fails \in BOOLEAN :
          PostgresEmbeddingStore_cosine_similarity_search(matches, reconnects, fails)
    \/ \E reconnects \in ReconnectChoices, fails \in BOOLEAN :
          PostgresEmbeddingStore_get_stats(reconnects, fails)
    \/ PostgresEmbeddingStore_close
    \/ \E doc \in Documents, reconnects \in ReconnectChoices,
          failing \in ProcessingFailures :
          EmbeddingPipeline_process_single_document(doc, reconnects, failing)

SpecStore == InitStoreSpec /\ [][NextStore]_vars

\* Runs of the embedding pipeline, one after the other, over a Drive folder
\* whose files change between the runs.
NextIngest ==
    \/ \E files \in Folders, force_rebuild \in BOOLEAN :
          \E hashes_fail \in (IF force_rebuild THEN {FALSE} ELSE BOOLEAN) :
              \E failing_doc \in 0..Len(changed_docs(load_files(files),
                                        IF hashes_fail THEN {} ELSE stored_hashes(doc_meta),
                                        force_rebuild)) :
                  \E failing \in (IF failing_doc = 0 THEN {"none"}
                                   ELSE ProcessingFailures \ {"none"}) :
                      EmbeddingPipeline_process_documents(files, force_rebuild, FALSE, TRUE,
                                                          hashes_fail, failing_doc, failing)
    \/ \E files \in Folders, force_rebuild \in BOOLEAN :
          /\ conn = "closed"
          /\ EmbeddingPipeline_process_documents(files, force_rebuild, FALSE, FALSE, FALSE, 0, "none")
    \/ \E force_rebuild \in BOOLEAN :
          EmbeddingPipeline_process_documents(<<>>, force_rebuild, TRUE, TRUE, FALSE, 0, "none")
    \/ PostgresEmbeddingStore_close

SpecIngest == InitStoreSpec /\ [][NextIngest]_vars

\* Calls of initialize_with_documents on a pipeline that may hold the chunks
\* of an earlier load.
InitLoad ==
    /\ mode = "lexical"
    /\ use_extended_knowledge = TRUE
    /\ chunks \in EarlierLoads
    /\ pc = "idle"
    /\ site = "none"
    /\ ctx = EmptyCtx
    /\ prompts = <<>>
    /\ call_result = NoCall
    /\ response_text = <<>>
    /\ result = NoResult
    /\ retry = retry_idle
    /\ reference = NoReference
    /\ search = NoSearch
    /\ InitStore
    /\ InitOffline

NextLoad ==
    \E documents \in DocumentLists : RAGPipeline_initialize_with_documents(documents)

SpecLoad == InitLoad /\ [][NextLoad]_vars

\* Re-ingestions of the documents, one at a time and in steps, with the
\* similarity searches of a query session in between.
NextReingest ==
    \/ \E doc \in Documents \cup {OtherDocument}, fails \in BOOLEAN : reingest_delete(doc, fails)
    \/ \E fails \in BOOLEAN : reingest_bulk_upsert(fails)
    \/ \E fails \in BOOLEAN : reingest_update_metadata(fails)
    \/ \E top_k \in {1, 5}, results \in SUBSET rows : similarity_search(top_k, results)

SpecReingest == InitStoreSpec /\ [][NextReingest]_vars

\* The session manager under calls from two threads, the cleanup thread and
\* the clock.
SessionMethods == {"create_session", "update_activity", "get_session_info", "clear_session",
                   "is_session_active", "get_active_sessions", "get_session_count"}

NextSession ==
    \/ \E t \in Callers, op \in SessionMethods, session_id \in SessionIds : call(t, op, session_id)
    \/ \E t \in Callers \cup {Sweeper} : acquire(t)
    \/ \E t \in Callers : create_session_evaluate(t)
    \/ \E t \in Callers : create_session_store(t)
    \/ \E t \in Callers : update_activity_check(t)
    \/ \E t \in Callers : update_activity_touch(t)
    \/ \E t \in Callers : update_activity_extend(t)
    \/ \E t \in Callers : get_session_info_read(t)
    \/ \E t \in Callers : clear_session_delete(t)
    \/ \E t \in Callers : is_session_active_test(t)
    \/ \E t \in Callers : get_active_sessions_list(t)
    \/ \E t \in Callers : get_session_count_count(t)
    \/ sweep_wake
    \/ sweep_scan
    \/ sweep_remove
    \/ sweep_raises
    \/ tick

SpecSession == InitStoreSpec /\ [][NextSession]_vars

\* The session manager with the methods that write the map, and a cleanup
\* thread that is scheduled fairly.
WritingMethods == {"create_session", "update_activity", "clear_session"}

\* A thread inside a with block runs on to its end.
in_critical_section(t) ==
    \/ create_session_evaluate(t)
    \/ create_session_store(t)
    \/ update_activity_check(t)
    \/ update_activity_touch(t)
    \/ update_activity_extend(t)
    \/ clear_session_delete(t)

NextSessionFair ==
    \/ \E t \in Callers, op \in WritingMethods, session_id \in SessionIds : call(t, op, session_id)
    \/ \E t \in Callers : acquire(t)
    \/ \E t \in Callers : create_session_evaluate(t)
    \/ \E t \in Callers : create_session_store(t)
    \/ \E t \in Callers : update_activity_check(t)
    \/ \E t \in Callers : update_activity_touch(t)
    \/ \E t \in Callers : update_activity_extend(t)
    \/ \E t \in Callers : clear_session_delete(t)
    \/ sweep_wake
    \/ acquire(Sweeper)
    \/ sweep_scan
    \/ sweep_remove
    \/ sweep_raises
    \/ tick

\* The cleanup thread's sleep ends, it gets the lock when the lock is free
\* again and again, and not every one of its sweeps raises; a thread inside
\* a critical section runs on.
SessionFairness ==
    /\ \A t \in Callers : WF_vars(in_critical_section(t))
    /\ WF_vars(sweep_wake)
    /\ SF_vars(acquire(Sweeper))
    /\ SF_vars(sweep_scan)
    /\ SF_vars(sweep_remove)

SpecSessionFair == InitStoreSpec /\ [][NextSessionFair]_vars /\ SessionFairness

----------------------------------------------------------------------------
(* Claims about generate_response (specification Spec) *)

\* The relevance threshold of the pipeline in use: 0.4 lexical, 0.5 vector.
relevance_threshold ==
    IF mode = "lexical" THEN RELEVANCE_THRESHOLD_LEXICAL ELSE RELEVANCE_THRESHOLD_VECTOR

NoRetrievedChunkAboveThreshold == \A c \in ctx.retrieved : c.score <= relevance_threshold

NoWebContentSupplied == ~ctx.has_web_info

NoDocumentLinkedWeb == ~ctx.has_drive_web_info

ContextFree(p) ==
    p.kind = "general" /\ p.chunks = <<>> /\ p.web_drive = <<>> /\ p.web_user = <<>>

NoAttribution(r) == r.drive = {} /\ r.web_drive = <<>> /\ r.web_user = <<>>

\* C1, as stated: a query against a loaded corpus with no supplied web content,
\* no retrieved chunk above the relevance threshold and extended knowledge
\* disabled returns the not-found message and makes no generation call.
C1_Original ==
    (/\ pc # "idle"
     /\ chunks # <<>>
     /\ NoWebContentSupplied
     /\ NoRetrievedChunkAboveThreshold
     /\ ~use_extended_knowledge)
    => (pc = "done" /\ result = not_found_result /\ prompts = <<>>)

\* C1, amended: the same, provided also that no document-linked web content was
\* fetched (the vector pipeline fetches URLs found in retrieved chunks scoring
\* above 0.3 and answers from them).
C1_FallbackGating ==
    (/\ pc # "idle"
     /\ chunks # <<>>
     /\ NoWebContentSupplied
     /\ NoDocumentLinkedWeb
     /\ NoRetrievedChunkAboveThreshold
     /\ ~use_extended_knowledge)
    => (pc = "done" /\ result = not_found_result /\ prompts = <<>>)

C1_Witness ==
    /\ pc = "done"
    /\ mode = "vector"
    /\ ctx.retrieved # {}
    /\ NoWebContentSupplied /\ NoDocumentLinkedWeb /\ NoRetrievedChunkAboveThreshold
    /\ ~use_extended_knowledge
    /\ result = not_found_result

\* C2: during one generate_response, _call_gemini_with_retry is invoked at most twice.
C2_AtMostTwoCalls == Len(prompts) <= 2

C2_Witness ==
    /\ pc = "done"
    /\ Len(prompts) = 2
    /\ prompts[1].kind = "grounded"
    /\ prompts[2].kind = "general"

\* C3, as stated: when the grounded reply contains a marker phrase and extended
\* knowledge is enabled, a second, context-free call is made and its reply is
\* returned with the general-knowledge note.
C3_Original ==
    (/\ pc = "done"
     /\ site \in {"grounded", "fallback"}
     /\ has_no_info_phrase(response_text)
     /\ use_extended_knowledge)
    => (/\ Len(prompts) = 2
        /\ ContextFree(prompts[2])
        /\ result.kind = "reply"
        /\ result.note
        /\ result.text = call_result.text)

\* C4: an answer carrying the general-knowledge note carries no document name
\* and no web URL.
C4_NoAttributionOnGeneralKnowledge == result.note => NoAttribution(result)

C4_Witness ==
    /\ pc = "done"
    /\ site = "fallback"
    /\ result.note
    /\ ctx.drive_sources # {}
    /\ ctx.web_sources # <<>>

\* C5, as stated: no chunk above the threshold, no web content of either kind,
\* extended knowledge enabled: exactly one call, context-free, and a non-empty
\* reply is returned with the general-knowledge note.
C5_Original ==
    (/\ pc = "done"
     /\ NoWebContentSupplied /\ NoDocumentLinkedWeb /\ NoRetrievedChunkAboveThreshold
     /\ use_extended_knowledge)
    => (/\ Len(prompts) = 1
        /\ ContextFree(prompts[1])
        /\ (call_result.status = "returned" /\ ~is_empty_reply(call_result)
              => result = general_knowledge_result(call_result.text)))

\* C5, amended: the same, for a query whose retrieval succeeds (in the lexical
\* pipeline: the chunk set is not empty).
C5_GeneralKnowledgeOnly ==
    (/\ pc # "idle"
     /\ mode = "lexical" => chunks # <<>>
     /\ NoWebContentSupplied /\ NoDocumentLinkedWeb /\ NoRetrievedChunkAboveThreshold
     /\ use_extended_knowledge)
    => (/\ Len(prompts) = 1
        /\ ContextFree(prompts[1])
        /\ (pc = "done" /\ call_result.status = "returned" /\ ~is_empty_reply(call_result)
              => result = general_knowledge_result(call_result.text)))

C5_Witness ==
    /\ pc = "done"
    /\ mode = "lexical"
    /\ ctx.retrieved # {}
    /\ NoWebContentSupplied /\ NoDocumentLinkedWeb /\ NoRetrievedChunkAboveThreshold
    /\ use_extended_knowledge
    /\ Len(prompts) = 1
    /\ result.note
    /\ result.text = <<"Paris">>

\* C6: when the top retrieved chunk scores above the threshold and the reply is
\* returned as the grounded answer, the prompt holds that chunk's content, the
\* attribution names its document, and the documents named are exactly those of
\* the chunks in the prompt.
C6_AttributionMatchesPrompt ==
    (/\ pc = "done"
     /\ ctx.top # <<>>
     /\ ctx.top[1].score > relevance_threshold
     /\ result.kind = "reply"
     /\ ~result.note)
    => (/\ ctx.top[1].content \in Range(prompts[1].chunks)
        /\ ctx.top[1].document_name \in result.drive
        /\ result.drive = { chunks[i].document_name : i \in Range(prompts[1].chunks) })

C6_Witness ==
    /\ pc = "done"
    /\ ctx.top # <<>>
    /\ ctx.top[1].score > relevance_threshold
    /\ result.kind = "reply"
    /\ ~result.note
    /\ Cardinality(result.drive) = 2
    /\ Len(prompts[1].chunks) = 3

\* C7: every chunk placed in a prompt scores above the relevance threshold, at
\* most 3 are placed, and no chunk left out scores higher than one placed.
C7_OnlyTopRelevantChunksInPrompt ==
    \A k \in 1..Len(prompts) :
        LET placed == Range(prompts[k].chunks)
        IN  /\ Len(prompts[k].chunks) <= CONTEXT_CHUNKS
            /\ \A i \in placed : chunks[i].score > relevance_threshold
            /\ \A j \in (1..Len(chunks)) \ placed :
                   \A i \in placed : chunks[j].score <= chunks[i].score

C7_Witness ==
    /\ prompts # <<>>
    /\ Len(prompts[1].chunks) = 3
    /\ \E j \in (1..Len(chunks)) \ Range(prompts[1].chunks) :
           chunks[j].score > relevance_threshold

\* C11, as stated: a generation call that comes back absent (the backend
\* answered with an empty body) makes generate_response return the fixed
\* unable-to-generate message, never a reply.
C11_Original ==
    (pc = "done" /\ call_result.status = "returned" /\ call_result.is_none)
        => result = unable_result

\* C12, as stated: in the vector pipeline a query whose retrieval failed (store
\* unreachable, search failed) returns the error string and makes no
\* generation call.
C12_Original ==
    (mode = "vector" /\ pc = "done" /\ ctx.retrieval_failed)
        => (result.kind = "error" /\ prompts = <<>>)

\* The values generate_response hands back as a string.
StringResultKinds == {"reply", "unable", "not_found", "error"}

\* C13: generate_response never raises.  Whatever retrieval, web fetching and
\* the generation calls did, it ends by returning a string: every return of
\* _call_gemini_with_retry, normal or by exception, on the first or the second
\* call, is taken up by generate_response, and an exception becomes the error
\* string.
C13_NeverRaises ==
    /\ pc = "done" => result.kind \in StringResultKinds
    /\ pc = "returned" =>
           \/ call_result.status = "raised"
           \/ /\ call_result.status = "returned"
              /\ site \in (IF mode = "lexical" THEN {"grounded", "fallback", "general"}
                                               ELSE {"grounded", "general"})
    /\ (pc = "done" /\ call_result.status = "raised")
           => result = [NoResult EXCEPT !.kind = "error", !.error = call_result.error]
    /\ (pc = "done" /\ mode = "lexical" /\ chunks = <<>>)
           => result = [NoResult EXCEPT !.kind = "error", !.error = "no_documents"]

C13_Witness ==
    /\ pc = "done"
    /\ site = "fallback"
    /\ Len(prompts) = 2
    /\ call_result.status = "raised"
    /\ call_result.signals = {"503"}
    /\ result.kind = "error"

\* C25: in lexical mode a query on an empty chunk corpus ends with the
\* 'No documents loaded' error and no generation call, so neither a
\* general-knowledge answer nor the not-found message is returned; in vector
\* mode an empty store gives an empty candidate list, and the query goes on
\* without that error.
C25_EmptyCorpus ==
    (chunks = <<>> /\ pc # "idle") =>
        IF mode = "lexical"
        THEN /\ pc = "done"
             /\ prompts = <<>>
             /\ result = error_result("no_documents")
        ELSE /\ ctx.retrieved = {}
             /\ ctx.top = <<>>
             /\ result.error # "no_documents"
             /\ (pc = "done" /\ prompts = <<>>) => result = not_found_result

\* A lexical query on an empty corpus, with extended knowledge enabled, that
\* has returned.
C25_Witness ==
    /\ mode = "lexical"
    /\ chunks = <<>>
    /\ use_extended_knowledge
    /\ pc = "done"
    /\ result.kind = "error"

----------------------------------------------------------------------------
(* Claim about the two implementations side by side (specification SpecBoth) *)

\* C14, as stated: on the same scored chunks, web content, extended-knowledge
\* setting and model replies, RAGPipelinePostgres takes the decision path
\* RAGPipeline took: as many generation calls, the same kind of prompt for each,
\* the same class of outcome.
C14_Original ==
    (reference.recorded /\ mode = "vector" /\ pc = "done")
        => decision_path = reference.path

----------------------------------------------------------------------------
(* Claims about _call_gemini_with_retry (specification SpecRetry) *)

\* The backend's error categories, by the signals of the message.
QuotaExhausted(o) == o.type = "error" /\ "429" \in o.signals

TransientUnavailable(o) == o.type = "error" /\ "503" \in o.signals /\ "429" \notin o.signals

OtherError(o) == o.type = "error" /\ o.signals = {}

AllTransient(outs) == \A i \in 1..Len(outs) : TransientUnavailable(outs[i])

Front(s) == SubSeq(s, 1, Len(s) - 1)

\* C8: a backend that is transiently unavailable on every attempt is called
\* exactly max_retries times and the error then propagates; a backend that
\* first answers on attempt k after k-1 transient failures is called exactly k
\* times and its reply is returned.
C8_RetryBound ==
    LET outs == retry.outcomes
    IN  /\ Len(outs) <= retry.max_retries
        /\ \A i \in 1..(Len(outs) - 1) : outs[i].type # "reply"
        /\ (AllTransient(outs) /\ Len(outs) < retry.max_retries) => retry.status = "running"
        /\ (AllTransient(outs) /\ Len(outs) = retry.max_retries)
               => (retry.status = "finished" /\ retry.result = raised_backend({"503"}))
        /\ (outs # <<>> /\ outs[Len(outs)].type = "reply" /\ AllTransient(Front(outs)))
               => (/\ retry.status = "finished"
                   /\ retry.result = returned_text(outs[Len(outs)].text)
                   /\ Len(retry.sleeps) = Len(outs) - 1)

C8_Witness ==
    /\ retry.status = "finished"
    /\ retry.max_retries = 3
    /\ Len(retry.outcomes) = 3
    /\ AllTransient(retry.outcomes)
    /\ retry.result.status = "raised"
    /\ retry.sleeps = <<1, 2>>

\* C9, as stated: in both pipelines a quota-exhausted error is never followed
\* by another attempt and leaves the call as the distinct quota-exceeded failure.
C9_Original ==
    \A i \in 1..Len(retry.outcomes) :
        QuotaExhausted(retry.outcomes[i])
            => (/\ i = Len(retry.outcomes)
                /\ retry.status = "finished"
                /\ retry.result = raised_quota_exceeded)

\* C10: an error that is neither transient-unavailable nor quota-exhausted ends
\* the call on its attempt: it propagates, with no sleep and no further attempt.
C10_OtherErrorPropagates ==
    \A i \in 1..Len(retry.outcomes) :
        OtherError(retry.outcomes[i])
            => (/\ i = Len(retry.outcomes)
                /\ retry.status = "finished"
                /\ retry.result = raised_backend({})
                /\ Len(retry.sleeps) = i - 1)

C10_Witness ==
    /\ retry.status = "finished"
    /\ Len(retry.outcomes) = 2
    /\ OtherError(retry.outcomes[2])
    /\ retry.result = raised_backend({})
    /\ retry.sleeps = <<1>>

----------------------------------------------------------------------------
(* Claims about PostgresEmbeddingStore (specification SpecStore) *)

RowsOf(chunk_id) == { r \in rows : r.chunk_id = chunk_id }

\* The values supplied by the most recent committed write of chunk_id.
LastWritten(chunk_id) == { w \in written : w.chunk_id = chunk_id }

\* C15: after any sequence of upsert, bulk_upsert and delete_document_chunks the
\* store holds at most one record per chunk_id, and its embedding is the one
\* supplied by the most recent committed write for that chunk_id.
C15_OneRecordLatestEmbedding ==
    /\ \A r1 \in rows, r2 \in rows : r1.chunk_id = r2.chunk_id => r1 = r2
    /\ \A r \in rows :
           /\ Cardinality(LastWritten(r.chunk_id)) = 1
           /\ \A w \in LastWritten(r.chunk_id) : r.embedding = w.embedding

\* A chunk_id written by upsert a second time, with other values than the first
\* time, beside a document chunk written by bulk_upsert.
C15_Witness ==
    /\ last_op.op = "upsert"
    /\ last_op.outcome = "returned"
    /\ \E r \in RowsOf("h1") : r.content = "" /\ r.metadata # NoMetadata
    /\ RowsOf("d1_chunk_0") # {}

\* C16, as stated: after a committed upsert or bulk_upsert of a chunk_id that
\* exists, the record's content and metadata, like its embedding, are the
\* values that write supplied.
C16_Original ==
    \A r \in rows :
        \A w \in LastWritten(r.chunk_id) :
            r.embedding = w.embedding /\ r.content = w.content /\ r.metadata = w.metadata

----------------------------------------------------------------------------
(* Claim about cosine_similarity_search (specification SpecSearch) *)

\* The rows scoring above the threshold of the last search.
AboveThreshold == { c \in Range(scored_chunks(Len(chunks))) : c.score > search.threshold }

Min(a, b) == IF a < b THEN a ELSE b

\* C17: cosine_similarity_search returns at most top_k records, each scoring
\* strictly above the threshold, in non-increasing score order, and no record
\* left out that scores above the threshold scores higher than a returned one.
\* When the query did not fail the result has min(top_k, number above
\* threshold) records, each row at most once.
C17_TopKAboveThreshold ==
    LET rs == search.results
    IN  /\ Len(rs) <= search.top_k
        /\ \A i \in 1..Len(rs) : rs[i].score > search.threshold /\ rs[i] \in AboveThreshold
        /\ \A i \in 1..Len(rs), j \in 1..Len(rs) : i < j => rs[i].score >= rs[j].score
        /\ \A c \in AboveThreshold \ Range(rs) : \A i \in 1..Len(rs) : c.score <= rs[i].score
        /\ (search.called /\ ~search.failed)
               => /\ Len(rs) = Min(search.top_k, Cardinality(AboveThreshold))
                  /\ Cardinality(Range(rs)) = Len(rs)

\* A search cut by top_k, with a row at the threshold and rows of different
\* scores above it.
C17_Witness ==
    /\ search.called /\ ~search.failed
    /\ search.top_k = 2
    /\ Len(search.results) = 2
    /\ search.results[1].score > search.results[2].score
    /\ Cardinality(AboveThreshold) > 2
    /\ \E i \in 1..Len(chunks) : chunks[i].score = search.threshold

\* C18: after _process_single_document returned for a document, the records
\* with its document_id are exactly the chunks 0..n-1 of its current content;
\* no record of an earlier, longer version remains.
C18_NoStaleChunks ==
    (last_op.op = "process_single_document" /\ last_op.outcome = "returned")
        => { r \in rows : r.document_id = last_op.doc.id }
               = { chunk_item(last_op.doc, i) : i \in 0..(last_op.doc.n_chunks - 1) }

\* The one-chunk version processed over the two chunks of the earlier version.
C18_Witness ==
    /\ last_op.op = "process_single_document"
    /\ last_op.outcome = "returned"
    /\ last_op.doc.n_chunks = 1
    /\ last_op.deleted = 2
    /\ RowsOf("d1_chunk_1") = {}
    /\ RowsOf("d1_chunk_0") # {}

StoreWrites == {"upsert", "bulk_upsert", "delete_document_chunks", "update_document_metadata"}

\* C19: a store write (upsert, bulk_upsert, delete_document_chunks,
\* update_document_metadata) that ends by raising leaves both tables as they
\* were committed before it, and a bulk_upsert that changes the table has
\* applied a whole batch, never a part of one.
C19_FailedWriteRollsBack ==
    [][ /\ (last_op'.op \in StoreWrites /\ last_op'.outcome = "raised")
            => (rows' = rows /\ doc_meta' = doc_meta)
        /\ (last_op'.op = "bulk_upsert" /\ rows' # rows)
            => /\ last_op'.outcome = "returned"
               /\ \E items \in ItemLists :
                      rows' = execute_batch(rows, items, bulk_upsert_columns) ]_vars

\* A bulk_upsert that failed inside its transaction (the connection was
\* there) on a table that holds rows.
C19_Witness ==
    /\ last_op.op = "bulk_upsert"
    /\ last_op.outcome = "raised"
    /\ conn = "open"
    /\ rows # {}

\* C20 as stated: a read operation (get, get_all_document_hashes,
\* cosine_similarity_search, get_stats) never raises and, when it failed,
\* returned its empty result.
C20_Original ==
    last_op.op \in {"get", "get_all_document_hashes", "cosine_similarity_search", "get_stats"}
        => last_op.outcome = "returned"

\* C21 as stated: what get_stats reports when its query succeeded is
\* total_chunks = the number of embedding records stored and
\* total_documents = the number of documents with a metadata record.
C21_Original ==
    (last_op.op = "get_stats" /\ last_op.outcome = "returned" /\ ~last_op.empty)
        => /\ get_stats_query(doc_meta).total_chunks = Cardinality(rows)
           /\ get_stats_query(doc_meta).total_documents
                  = Cardinality({ m.document_id : m \in doc_meta })

----------------------------------------------------------------------------
(* Claims about the embedding pipeline (specification SpecIngest) *)

\* The documents _process_single_document was called for during the run.
Processed == Range(run.completed) \cup ({run.offending} \ {NoDocument})

\* The loaded documents whose stored hash, as the run began, is absent or
\* differs from the hash of their current id and content.
ChangedSinceStored ==
    { d \in Range(load_files(run.files)) : <<d.id, compute_document_hash(d)>> \notin run.stored }

\* Without the force flag only documents whose stored hash is absent or
\* differs are processed, and a run that returns has processed exactly those;
\* with the flag a run that returns has processed every loaded document.
ExactlyTheChanged ==
    IF run.force_rebuild
    THEN run.outcome = "returned" => Processed = Range(load_files(run.files))
    ELSE /\ Processed \subseteq ChangedSinceStored
         /\ run.outcome = "returned" => Processed = ChangedSinceStored

HashesRead == run.cached_hashes = run.stored

C23_Original ==
    (run.called /\ run.files # <<>>) =>
        /\ run.documents = load_files(run.files)
        /\ \A f \in Range(run.files) : f.load = "ok" => f.doc \in Range(run.documents)
        /\ run.offending # NoDocument
               => Range(run.changed) \ {run.offending} \subseteq Range(run.completed)

----------------------------------------------------------------------------
(* Claim about the lexical retrieval (specification SpecLexical) *)

\* The corpus chunks with score > 0.
PositiveChunks == { c \in Range(scored_chunks(Len(chunks))) : c.score > 0 }

\* c comes before d in the result: a higher score, or the same score and an
\* earlier place in the corpus (content is the place).
RanksBefore(c, d) == c.score > d.score \/ (c.score = d.score /\ c.content < d.content)

\* C24: on a corpus that is not empty the lexical _retrieve_relevant_chunks
\* returns chunks with score > 0 only, in non-increasing score order with
\* equal scores in corpus order, the first top_k of all such chunks; these
\* conditions leave one list only, so the result is a function of corpus,
\* query and top_k.
C24_PositiveSortedTopK ==
    (search.called /\ ~search.failed) =>
        LET rs == search.results
        IN  /\ Range(rs) \subseteq PositiveChunks
            /\ Len(rs) = Min(search.top_k, Cardinality(PositiveChunks))
            /\ \A i \in 1..Len(rs), j \in 1..Len(rs) : i < j => RanksBefore(rs[i], rs[j])
            /\ \A c \in PositiveChunks \ Range(rs) : \A i \in 1..Len(rs) : RanksBefore(rs[i], c)
            /\ rs = RAGPipeline_retrieve_relevant_chunks(search.top_k).chunks

\* A result cut by top_k that holds two chunks of one score, from a corpus
\* with a chunk scoring 0 and a positive chunk that was left out.
C24_Witness ==
    /\ search.called /\ ~search.failed
    /\ Len(search.results) = search.top_k
    /\ \E i \in 1..Len(search.results) - 1 : search.results[i].score = search.results[i + 1].score
    /\ \E i \in 1..Len(chunks) : chunks[i].score = 0
    /\ PositiveChunks \ Range(search.results) # {}

----------------------------------------------------------------------------
(* Claims about _simple_relevance_score (specification SpecScore) *)

\* C26: _simple_relevance_score returns a value in [0, 1], and exactly 0 when
\* no token of the query survives the stop-word and length filter.
C26_ScoreInUnitInterval ==
    score.called =>
        /\ score.value.den > 0
        /\ 0 <= score.value.num
        /\ score.value.num <= score.value.den
        /\ query_words(score.query) = <<>> => score.value.num = 0

\* A score that the cap brought down to 1 (every query word found and the
\* phrase bonus on top), for a query that also holds a stop word.
C26_Witness ==
    /\ score.called
    /\ score.value.num = score.value.den
    /\ Len(query_words(score.query)) = 1
    /\ Len(findall_words(score.query, <<>>, <<>>)) = 2
    /\ is_in(str_lower(score.query), str_lower(score.text))

\* C27 as stated: a query with at least one token that is no stop word
\* scores above 0 against itself.
C27_Original ==
    (/\ score.called
     /\ score.text = score.query
     /\ \E word \in Range(findall_words(str_lower(score.query), <<>>, <<>>)) :
            word \notin stop_words)
        => score.value.num > 0

\* C27: a query with at least one token that is no stop word and is longer
\* than 2 characters scores above 0 against itself.
C27_SelfScorePositive ==
    (score.called /\ score.text = score.query /\ query_words(score.query) # <<>>)
        => score.value.num > 0

\* A query with a capital letter, a stop word and a word that survives the
\* filter, scored against itself.
C27_Witness ==
    /\ score.called
    /\ score.text = score.query
    /\ score.query # str_lower(score.query)
    /\ Len(query_words(score.query)) = 1
    /\ Len(findall_words(score.query, <<>>, <<>>)) = 2
    /\ score.value.num > 0

----------------------------------------------------------------------------
(* Claims about _chunk_text (specification SpecChunk) *)

\* C28 as stated: with 0 < overlap < chunk_size the window start strictly
\* increases on every iteration of the loop of _chunk_text.
C28_Original ==
    [][ (chunker.pc = "loop" /\ chunker'.pc = "loop") => chunker'.start > chunker.start ]_vars

\* The non-overlap regions of the chunks put together: the first chunk whole,
\* every later chunk without its first overlap characters.
non_overlap_regions(cs, overlap) ==
    IF cs = <<>> THEN <<>>
    ELSE cs[1] \o concat([k \in 1..(Len(cs) - 1) |-> slice(cs[k + 1], overlap, Len(cs[k + 1]))])

\* C29 as stated: the non-overlap regions of the chunks _chunk_text returns,
\* put together, are the whitespace-normalized text.
C29_Original ==
    chunker.pc = "returned" => non_overlap_regions(chunker.result, chunker.overlap) = chunker.text

----------------------------------------------------------------------------
(* Claims about the session manager (specification SpecSession) *)

\* A thread is at a statement inside a with self.lock block.
InsideLock(t) == threads[t].pc \notin {"idle", "acquire"}

\* Thread t has written last_activity and not yet expires_at.
BetweenTheWrites(t) == threads[t].pc = "extend"

\* The session lasts at least one timeout after its last activity.
FullTimeout(session_id) ==
    sessions[session_id].expires_at >= sessions[session_id].last_activity + Timeout

\* C30: update_activity on an unexpired session sets last_activity to the
\* current time and expires_at to one timeout after it inside one critical
\* section: while a thread is between the two writes no other thread is
\* inside the lock, so none reads the new last_activity with the old
\* expires_at, and whenever no update is under way every session in the map
\* stays active for a full timeout after its last activity.
C30_UpdateIsAtomic ==
    /\ \A t \in Callers : BetweenTheWrites(t) =>
           \A u \in (Callers \cup {Sweeper}) \ {t} : ~InsideLock(u)
    /\ \A session_id \in SessionIds :
           (present(session_id) /\ \A t \in Callers : ~BetweenTheWrites(t)) =>
               FullTimeout(session_id)

\* C30 witness: a thread's update_activity has returned True on a session
\* that it moved to a later last_activity, while the other thread had called
\* a method and was waiting for the lock.
C30_Witness ==
    \E t \in Callers, u \in Callers :
        /\ t # u
        /\ threads[t].pc = "idle"
        /\ threads[t].op = "update_activity"
        /\ threads[t].ret = "True"
        /\ present(threads[t].session_id)
        /\ sessions[threads[t].session_id].last_activity > sessions[threads[t].session_id].created_at
        /\ sessions[threads[t].session_id].expires_at >= now + Timeout
        /\ threads[u].pc = "acquire"
        /\ threads[u].op = "get_session_info"

\* The threads inside a with self.lock block.
InCriticalSection == {t \in Callers \cup {Sweeper} : InsideLock(t)}

\* C31: every statement that reads or writes the session map or a session
\* record, in create_session, is_session_active, update_activity,
\* get_session_info, clear_session, get_active_sessions, get_session_count
\* and the sweep, runs in a thread that holds the one lock, and no two
\* threads are inside their critical sections at once.
C31_OneLockNoOverlap ==
    /\ \A t \in InCriticalSection : lock = t
    /\ Cardinality(InCriticalSection) <= 1
    /\ lock # "free" => lock \in InCriticalSection

\* C31 witness: one thread is between the two writes of update_activity
\* while the other caller and the sweep both wait for the lock.
C31_Witness ==
    \E t \in Callers, u \in Callers :
        /\ t # u
        /\ threads[t].pc = "extend"
        /\ lock = t
        /\ threads[u].pc = "acquire"
        /\ threads[u].op \in {"get_active_sessions", "get_session_count", "is_session_active"}
        /\ threads[Sweeper].pc = "acquire"

\* C32: the sweep removes a session only if it is expired at the moment of
\* the sweep (now >= expires_at); a session whose activity was updated
\* before the sweep took the lock and that has not expired since stays in
\* the map.
C32_SweepRemovesOnlyExpired ==
    [][\A id \in SessionIds :
          (sessions[id].state = "present" /\ sessions'[id].state = "swept") =>
              now >= sessions[id].expires_at]_vars

\* C32 witness: the sweep has removed a session whose activity had been
\* updated after its creation.
C32_Witness ==
    \E id \in SessionIds :
        /\ sessions[id].state = "swept"
        /\ sessions[id].last_activity > sessions[id].created_at
        /\ now >= sessions[id].expires_at

\* The other case: the sweep has run over a session past one
\* timeout from its creation, whose activity was updated, and has left it
\* in the map.
SweptOverAndKept ==
    \E id \in SessionIds :
        /\ present(id)
        /\ now >= sessions[id].created_at + Timeout
        /\ now < sessions[id].expires_at
        /\ threads[Sweeper].op = "sweep"
        /\ threads[Sweeper].pc = "idle"

----------------------------------------------------------------------------
(* Claim about the web URLs of the attribution (specification Spec) *)

\* The web URLs a returned answer shows, in the order they are shown.
shown_urls == result.web_drive \o result.web_user

\* C33: in the attribution of a returned grounded answer each web URL
\* appears at most once, also when the same URL is supplied with the query
\* and fetched as a URL mentioned in a retrieved document.
C33_Original ==
    (pc = "done" /\ result.kind = "reply" /\ ~result.note) =>
        \A i, j \in 1..Len(shown_urls) : shown_urls[i] = shown_urls[j] => i = j

----------------------------------------------------------------------------
(* Claim about the cleanup thread (specification SpecSessionFair) *)

\* A call of update_activity on the session has passed its expiry test and
\* has not yet written expires_at.
UpdateUnderWay(id) ==
    \E t \in Callers : threads[t].session_id = id /\ threads[t].pc \in {"touch", "extend"}

----------------------------------------------------------------------------
(* Claim about expired sessions (specification SpecSession) *)

\* Thread t returns from method op in this step.
Returns(t, op) == threads[t].op = op /\ threads[t].pc # "idle" /\ threads'[t].pc = "idle"

\* What a step may do and report about a session that counts as expired:
\* its times are not written, it stays expired until it leaves the map,
\* update_activity and is_session_active return False, get_session_info
\* returns None, get_active_sessions leaves it out and get_session_count
\* does not count it.
NotReportedActive(id) ==
    /\ sessions'[id].last_activity = sessions[id].last_activity
    /\ sessions'[id].expires_at = sessions[id].expires_at
    /\ sessions'[id].state \in {"present", "swept", "cleared"}
    /\ now' >= sessions'[id].expires_at
    /\ \A t \in Callers :
           /\ (Returns(t, "update_activity") /\ threads[t].session_id = id) =>
                  threads'[t].ret = "False"
           /\ (Returns(t, "is_session_active") /\ threads[t].session_id = id) =>
                  threads'[t].ret = "False"
           /\ (Returns(t, "get_session_info") /\ threads[t].session_id = id) =>
                  threads'[t].ret = "None"
           /\ Returns(t, "get_active_sessions") => id \notin threads'[t].listed
           /\ Returns(t, "get_session_count") =>
                  threads'[t].tmp = Cardinality({j \in SessionIds \ {id} :
                                         present(j) /\ now < sessions[j].expires_at})

\* C35 as stated: once now >= expires_at for a session in the map, no step
\* writes its times or reports it active, swept or not.
C35_Original ==
    [][\A id \in SessionIds :
          (present(id) /\ now >= sessions[id].expires_at) => NotReportedActive(id)]_vars

\* C35 amended: once now >= expires_at for a session in the map and no call
\* of update_activity is between its expiry test and its write of
\* expires_at, or once the sweep has removed the session, no step writes
\* its times or reports it active.
C35_ExpiredStaysInactive ==
    [][\A id \in SessionIds :
          (\/ present(id) /\ now >= sessions[id].expires_at /\ ~UpdateUnderWay(id)
           \/ sessions[id].state = "swept") => NotReportedActive(id)]_vars

\* C35 witness: with the expired session still in the map, update_activity
\* has returned False to one thread and get_active_sessions an empty list to
\* the other.
C35_Witness ==
    \E id \in SessionIds, t \in Callers, u \in Callers :
        /\ present(id)
        /\ now >= sessions[id].expires_at
        /\ sessions[id].last_activity > sessions[id].created_at
        /\ threads[t].op = "update_activity" /\ threads[t].pc = "idle"
        /\ threads[t].session_id = id /\ threads[t].ret = "False"
        /\ threads[u].op = "get_active_sessions" /\ threads[u].pc = "idle"
        /\ threads[u].ret = "list" /\ threads[u].listed = {}

----------------------------------------------------------------------------
(* Claim about the stored document hash (specification SpecIngest) *)

\* The content versions a document may have.
Versions == Documents \cup {OtherDocument}

\* The store holds the complete chunk set of the version doc and no other
\* record of the document.
HoldsChunkSet(doc) ==
    { r \in rows : r.document_id = doc.id }
        = { chunk_item(doc, i) : i \in 0..(doc.n_chunks - 1) }

\* C36: in every state reached by runs of _process_single_document, failed
\* ones included, the document_hash stored for a document equals the hash
\* of a content version only if the store holds the complete chunk set of
\* that version.
C36_Original ==
    \A m \in doc_meta : \A doc \in Versions :
        (m.document_id = doc.id /\ m.document_hash = compute_document_hash(doc))
            => HoldsChunkSet(doc)

----------------------------------------------------------------------------
(* Claim about searches during a re-ingestion (specification SpecReingest) *)

\* The rows of a document among those of rs.
OfDocument(rs, document_id) == { r \in rs : r.document_id = document_id }

\* C37: a similarity search interleaved with the re-ingestion of a document
\* never returns a mixture of its old and new chunks: at every moment the
\* committed rows of a document are the complete chunk set of one version
\* or none, and the rows of the document that a search returned all belong
\* to one version.
C37_NoMixture ==
    \A doc \in Versions :
        /\ OfDocument(rows, doc.id) = {} \/ \E v \in Versions : v.id = doc.id /\ HoldsChunkSet(v)
        /\ \E v \in Versions :
               /\ v.id = doc.id
               /\ OfDocument(ingest.seen, doc.id)
                      \subseteq { chunk_item(v, i) : i \in 0..(v.n_chunks - 1) }

\* C37 witness: document d1, stored before, is re-ingested with its later
\* version and a search made between the delete and the upsert returned the
\* row of the other document and none of d1.
C37_Witness ==
    /\ ingest.pc = "deleted"
    /\ ingest.doc.id = "d1" /\ ingest.doc.version = 2
    /\ \E m \in doc_meta : m.document_id = "d1" /\ m.chunk_count = 2
    /\ ingest.seen = rows
    /\ ingest.seen # {}

----------------------------------------------------------------------------
(* Claim about initialize_with_documents (specification SpecLoad) *)

\* The chunks of the documents, in document then chunk order.
RECURSIVE chunks_of(_)
chunks_of(documents) ==
    IF documents = <<>> THEN <<>> ELSE documents[1].pieces \o chunks_of(Tail(documents))

\* C38: initialize_with_documents is all-or-nothing: when it raises, the
\* chunk set is the one before the call; when it returns, the chunk set is
\* exactly the chunks of the given documents, in document then chunk order.
C38_Original ==
    load.called =>
        IF load.raised THEN chunks = load.before ELSE chunks = chunks_of(load.documents)

----------------------------------------------------------------------------
(* Claim about the exact-phrase bonus (specification SpecScore) *)

\* The query words of the call that occur in the lowered text.
matched_words ==
    { i \in 1..Len(query_words(score.query)) :
          is_in(query_words(score.query)[i], str_lower(score.text)) }

\* C39: the +0.3 bonus never changes the value returned: when the lowered
\* query occurs in the lowered text every surviving query word occurs in it
\* too, and the value always equals matched words divided by query words.
C39_BonusChangesNothing ==
    (score.called /\ query_words(score.query) # <<>>) =>
        /\ is_in(str_lower(score.query), str_lower(score.text))
               => Cardinality(matched_words) = Len(query_words(score.query))
        /\ score.value.num * Len(query_words(score.query))
               = Cardinality(matched_words) * score.value.den

\* C39 witness: a call in which the bonus applies, on a text that is longer
\* than the query and differs from it in case.
C39_Witness ==
    /\ score.called
    /\ query_words(score.query) # <<>>
    /\ is_in(str_lower(score.query), str_lower(score.text))
    /\ ~is_in(score.query, score.text)
    /\ Len(score.text) > Len(score.query)
    /\ score.value.num = score.value.den
====
